---------------------------- MODULE Spec2Model ----------------------------
(***************************************************************************)
(* Verification model of the posemir pattern discovery engine: the point   *)
(* set data model, SIA / SIAR, SIATEC, SIATEC-C / SIATEC-CH and COSIATEC.  *)
(*                                                                         *)
(* Points are pairs <<x, y>> of integral f64 values (Point2Df64, the point  *)
(* type of the command line tool and of the tests); sums, differences and  *)
(* products are rounded as f64 rounds them.  Vectors in the code are       *)
(* 0-indexed; the model stores the code's indices as they are and reads a  *)
(* sequence s at code index i with s[i + 1].                               *)
(***************************************************************************)
EXTENDS Integers, Sequences, FiniteSets, TLC

\* ------------------------------------------------------------------ bounds
\* Greatest onset (x) and pitch (y) coordinate of an input point.
MaxX == 3
MaxY == 1
\* Greatest number of points of an input point set.
MaxN == 5
\* SIATEC-C / SIATEC-CH: greatest max_ioi parameter tried (1 .. MaxIoi),
\* greatest onset of an input point and greatest size of an input point set.
MaxIoi == 2
WinMaxX == 5
WinMaxN == 5
\* SIATEC-CH: greatest size of an input point set.  Every order of the keys
\* of the hash map of an iteration is a run of its own, so the runs of
\* SIATEC-CH are enumerated on point sets of one point less.
ChMaxN == 4
\* The same two for the runs checked for termination.
LiveMaxX == 4
LiveMaxN == 4
LiveChMaxN == 3
\* PointSet algebra: greatest onset of a raw input point, and greatest
\* length of the raw input vector handed to PointSet::new.
PsMaxX == 2
MaxRawLen == 3
\* Onsets and translations at which f64 sums round: the values within
\* FarSpan of F64Exact.
FarSpan == 3
\* Greatest window parameter r tried for SIAR (1 .. MaxR).
MaxR == 2

VARIABLES
    psA,            \* PointSet algebra: the point set last produced
    psB,            \* PointSet algebra: the point set produced before it
    ps_op,          \* PointSet algebra: the operation done last
    ps_self,        \* PointSet algebra: the receiver of that operation
    alg,            \* the algorithm configuration of a discovery run
    point_set,      \* the point set handed to the algorithm
    status,         \* position of the run: "start", a phase name, "done" or "panic"
    forward_diffs,  \* forward differences (sorted in Sia, SiaR, Siatec and SiatecC; the entries of the hash map in SiatecCH)
    fi,             \* Sia::partition: index i into forward_diffs
    intra_diff_freqs, \* SiaR: (difference, frequency) pairs, most frequent first
    diff_table,     \* Siatec: the n x n difference table
    mtps,           \* MTPs produced so far (Sia, SiaR) / MTP triples (Siatec, SiatecC)
    tecs,           \* TECs handed to on_output so far
    max_ioi,        \* SiatecC / SiatecCH parameter
    siar_r,         \* SiaR parameter r
    diff_index,     \* SiatecC / SiatecCH global difference index
    target_indices, \* SiatecC main loop: per-source target pointer
    window_bounds,  \* SiatecC main loop: per-source onset bound
    cover,          \* SiatecC main loop: per-point cover counter
    split_triples,  \* SiatecC main loop: the split triples of this iteration
    cos_point_set,  \* Cosiatec: the point set handed to Cosiatec
    cos_status,     \* Cosiatec: position of the run
    residual,       \* Cosiatec: point_set_clone
    iterations,     \* Cosiatec: loop counter
    emitted,        \* Cosiatec: TECs handed to Cosiatec's on_output
    cmp_status,     \* SiatecCompress: position of the run
    tec_stats,      \* SiatecCompress: the ranked TecStats
    ts_i,           \* SiatecCompress::compute_encoding: index into tec_stats
    total_cover,    \* SiatecCompress::compute_encoding: total_cover
    tec_cover,      \* SiatecCompress::compute_encoding: tec_cover
    obj_tec,        \* Tec / Pattern operations: the Tec at hand
    obj_vec,        \* Tec / Pattern operations: the vector at hand
    obj_op,         \* Tec / Pattern operations: the last operation
    obj_result      \* Tec / Pattern operations: its result

psVars == <<psA, psB, ps_op, ps_self>>
runVars == <<alg, point_set, status, forward_diffs, fi, intra_diff_freqs,
             diff_table, mtps, tecs>>
winVars == <<max_ioi, siar_r, diff_index, target_indices, window_bounds, cover,
             split_triples>>
cosVars == <<cos_point_set, cos_status, residual, iterations, emitted>>
cmpVars == <<cmp_status, tec_stats, ts_i, total_cover, tec_cover>>
objVars == <<obj_tec, obj_vec, obj_op, obj_result>>
vars == <<psVars, runVars, winVars, cosVars, cmpVars, objVars>>

\* ------------------------------------------------------------------ points
ZeroPoint == <<0, 0>>

\* Coordinates are f64 values that are integers.  The mantissa is narrowed
\* from 53 bits to F64MantissaBits: every integer of magnitude up to
\* F64Exact is a value, above it every second one, above 2 * F64Exact every
\* fourth, and so on.  F64Exact stands for 2^53.
F64MantissaBits == 10
F64Exact == 2 ^ F64MantissaBits

\* The distance between neighbouring values at magnitude m
RECURSIVE Ulp(_)
Ulp(m) == IF m < F64Exact THEN 1 ELSE 2 * Ulp(m \div 2)

\* Rounding to the nearest value, a tie to the even mantissa
RoundMagnitude(m) ==
    LET u == Ulp(m)
        q == m \div u
        r == m % u
    IN  IF 2 * r < u THEN q * u
        ELSE IF 2 * r > u THEN (q + 1) * u
        ELSE IF q % 2 = 0 THEN q * u ELSE (q + 1) * u

F64Round(n) ==
    IF -F64Exact <= n /\ n <= F64Exact THEN n
    ELSE IF n < 0 THEN -RoundMagnitude(-n) ELSE RoundMagnitude(n)

\* Point::add / Point::sub / Point::mul (by an integral scalar): each
\* component is the rounded result
PAddExact(a, b) == <<a[1] + b[1], a[2] + b[2]>>
PAdd(a, b) == <<F64Round(a[1] + b[1]), F64Round(a[2] + b[2])>>
PSub(a, b) == <<F64Round(a[1] - b[1]), F64Round(a[2] - b[2])>>
PMul(a, k) == <<F64Round(a[1] * k), F64Round(a[2] * k)>>

\* Point::is_zero
IsZeroNever(a) == FALSE
IsZero(a) == a[1] = 0 /\ a[2] = 0

\* Ord for points: compare x, then y
PLess(a, b) == a[1] < b[1] \/ (a[1] = b[1] /\ a[2] < b[2])

\* Point::component_f64(0): the onset
Onset(a) == a[1]

\* ------------------------------------------------------------------ helpers
Range(s) == {s[k] : k \in 1..Len(s)}

Min2(a, b) == IF a < b THEN a ELSE b
Max2(a, b) == IF a > b THEN a ELSE b

\* The element of a one-element set.  A value bound through a set, as v in
\* {f(v) : v \in {e}}, is computed once, however often f reads it.
TheOnly(S) == CHOOSE v \in S : TRUE

\* slice::sort / slice::sort_by: the stable sorted permutation of s under a
\* strict order, given as the set lt of the pairs <<a, b>> with a before b.
SortedBy(s, lt) ==
    LET n == Len(s)
        pos(i) == 1 + Cardinality({j \in 1..n :
                          <<s[j], s[i]>> \in lt \/ (<<s[i], s[j]>> \notin lt /\ j < i)})
    IN  [k \in 1..n |-> s[CHOOSE i \in 1..n : pos(i) = k]]

StableSort(s, lt) == TheOnly({SortedBy(q[1], q[2]) : q \in {<<s, lt>>}})

\* The pairs of elements of s
Pairs(s) == Range(s) \X Range(s)

\* Vec::dedup: drops every element equal to its predecessor
DedupNone(s) == s
Dedup(s) ==
    LET keep == SelectSeq([k \in 1..Len(s) |-> k],
                          LAMBDA k : k = 1 \/ s[k] # s[k - 1])
    IN  [i \in 1..Len(keep) |-> s[keep[i]]]

\* ---------------------------------------------------------------- PointSet
\* PointSet::new: sort, then dedup
PointSetNew(points) ==
    Dedup(StableSort(points, {q \in Pairs(points) : PLess(q[1], q[2])}))

\* PointSet::translate: no re-sort
PsTranslate(ps, translator) == [k \in 1..Len(ps) |-> PAdd(ps[k], translator)]

\* PointSet::intersect: two-pointer merge
RECURSIVE IntersectLoop(_, _, _, _, _)
RECURSIVE IntersectLoopFlipped(_, _, _, _, _)
IntersectLoopFlipped(self, other, i, j, common_points) ==
    IF i < Len(self) /\ j < Len(other)
    THEN LET a == self[i + 1]
             b == other[j + 1]
         IN  IF a = b
             THEN IntersectLoopFlipped(self, other, i + 1, j + 1, Append(common_points, a))
             ELSE IF PLess(a, b)
                  THEN IntersectLoopFlipped(self, other, i, j + 1, common_points)
                  ELSE IntersectLoopFlipped(self, other, i + 1, j, common_points)
    ELSE common_points

IntersectLoop(self, other, i, j, common_points) ==
    IF i < Len(self) /\ j < Len(other)
    THEN LET a == self[i + 1]
             b == other[j + 1]
         IN  IF a = b
             THEN IntersectLoop(self, other, i + 1, j + 1, Append(common_points, a))
             ELSE IF PLess(b, a)
                  THEN IntersectLoop(self, other, i, j + 1, common_points)
                  ELSE IntersectLoop(self, other, i + 1, j, common_points)
    ELSE common_points

PsIntersect(self, other) == IntersectLoop(self, other, 0, 0, <<>>)

\* PointSet::difference: two-pointer merge, then the tail of self
RECURSIVE DifferenceLoop(_, _, _, _, _)
RECURSIVE DifferenceLoopNoTail(_, _, _, _, _)
DifferenceLoopNoTail(self, other, i, j, diff) ==
    IF i < Len(self) /\ j < Len(other)
    THEN LET a == self[i + 1]
             b == other[j + 1]
         IN  IF a = b
             THEN DifferenceLoopNoTail(self, other, i + 1, j + 1, diff)
             ELSE IF PLess(b, a)
                  THEN DifferenceLoopNoTail(self, other, i, j + 1, diff)
                  ELSE DifferenceLoopNoTail(self, other, i + 1, j, Append(diff, a))
    ELSE diff

DifferenceLoop(self, other, i, j, diff) ==
    IF i < Len(self) /\ j < Len(other)
    THEN LET a == self[i + 1]
             b == other[j + 1]
         IN  IF a = b
             THEN DifferenceLoop(self, other, i + 1, j + 1, diff)
             ELSE IF PLess(b, a)
                  THEN DifferenceLoop(self, other, i, j + 1, diff)
                  ELSE DifferenceLoop(self, other, i + 1, j, Append(diff, a))
    ELSE IF i < Len(self) /\ j = Len(other)
         THEN diff \o SubSeq(self, i + 1, Len(self))
         ELSE diff

PsDifference(self, other) == DifferenceLoop(self, other, 0, 0, <<>>)

\* PointSet::get_pattern: the points at the given indices, in index order
GetPattern(ps, indices) == [k \in 1..Len(indices) |-> ps[indices[k] + 1]]

\* the grid the inputs are drawn from
Grid == (0..MaxX) \X (0..MaxY)
InGrid(p) == p[1] \in 0..MaxX /\ p[2] \in 0..MaxY

StrictlyAscending(ps) == \A k \in 1..(Len(ps) - 1) : PLess(ps[k], ps[k + 1])

\* Raw input vectors of PointSet::new: any order, duplicates allowed
RECURSIVE SeqsUpTo(_, _)
SeqsUpTo(S, n) ==
    IF n = 0 THEN {<<>>}
    ELSE LET shorter == SeqsUpTo(S, n - 1)
         IN  shorter \cup {Append(s, e) : s \in {t \in shorter : Len(t) = n - 1}, e \in S}

\* The PointSet algebra draws its points from two onsets and two pitches:
\* enough for ties on the first component, duplicates and unsorted input.
PsPitches == {0, 1}
PsGrid == (0..PsMaxX) \X PsPitches
RawInputs == SeqsUpTo(PsGrid, MaxRawLen)
\* The translators tried: the short ones and, for the sums that round, the
\* two of magnitude F64Exact
PsTranslators ==
    (((-PsMaxX)..PsMaxX) \X {-1, 0, 1}) \cup {<<F64Exact, 0>>, <<-F64Exact, 0>>}
\* The points a walk of translations stays within: the grid and its copy
\* at F64Exact (the values of f64 from F64Exact to F64Exact + FarSpan)
PsReach ==
    PsGrid \cup ({x \in F64Exact..(F64Exact + FarSpan) : F64Round(x) = x} \X PsPitches)

\* ------------------------------------------------- PointSet algebra (SpecPointSet)
InitIdleRun ==
    /\ alg = "none" /\ point_set = <<>> /\ status = "idle"
    /\ forward_diffs = <<>> /\ fi = 0 /\ intra_diff_freqs = <<>>
    /\ diff_table = <<>> /\ mtps = <<>> /\ tecs = <<>>
InitIdleWin ==
    /\ max_ioi = 0 /\ siar_r = 0 /\ diff_index = <<>> /\ target_indices = <<>>
    /\ window_bounds = <<>> /\ cover = <<>> /\ split_triples = <<>>
InitIdleCmp ==
    /\ cmp_status = "idle" /\ tec_stats = <<>> /\ ts_i = 0
    /\ total_cover = <<>> /\ tec_cover = <<>>
InitIdleObj ==
    /\ obj_tec = [pattern |-> <<>>, translators |-> <<>>] /\ obj_vec = <<0, 0>>
    /\ obj_op = "idle" /\ obj_result = <<>>
InitIdleCos ==
    /\ cos_point_set = <<>> /\ cos_status = "idle"
    /\ residual = <<>> /\ iterations = 0 /\ emitted = <<>>
    /\ InitIdleCmp /\ InitIdleObj

InitIdlePs ==
    /\ psA = <<>>
    /\ psB = <<>>
    /\ ps_op = "idle"
    /\ ps_self = <<>>

InitPointSet ==
    /\ psA = PointSetNew(<<>>)
    /\ psB = PointSetNew(<<>>)
    /\ ps_op = "new"
    /\ ps_self = <<>>
    /\ InitIdleRun /\ InitIdleWin /\ InitIdleCos

\* Every result of PointSet::new over the raw inputs
NewPointSets == {PointSetNew(points) : points \in RawInputs}

\* let b = PointSet::new(points)
PsNewStep ==
    \E ps \in NewPointSets :
        /\ psB' = ps
        /\ psA' = psA
        /\ ps_op' = "new"
        /\ ps_self' = <<>>
        /\ UNCHANGED <<runVars, winVars, cosVars, cmpVars, objVars>>

\* a = b.clone()
PsLoadStep ==
    /\ psA' = psB
    /\ psB' = psB
    /\ ps_op' = "clone"
    /\ ps_self' = psB
    /\ UNCHANGED <<runVars, winVars, cosVars, cmpVars, objVars>>

\* a = a.translate(&translator)
PsTranslateStep ==
    \E translator \in PsTranslators :
        /\ Range(PsTranslate(psA, translator)) \subseteq PsReach
        /\ psA' = PsTranslate(psA, translator)
        /\ psB' = psB
        /\ ps_op' = "translate"
        /\ ps_self' = psA
        /\ UNCHANGED <<runVars, winVars, cosVars, cmpVars, objVars>>

\* a = a.intersect(&b)
PsIntersectStep ==
    /\ psA' = PsIntersect(psA, psB)
    /\ psB' = psB
    /\ ps_op' = "intersect"
    /\ ps_self' = psA
    /\ UNCHANGED <<runVars, winVars, cosVars, cmpVars, objVars>>

\* a = a.difference(&b)
PsDifferenceStep ==
    /\ psA' = PsDifference(psA, psB)
    /\ psB' = psB
    /\ ps_op' = "difference"
    /\ ps_self' = psA
    /\ UNCHANGED <<runVars, winVars, cosVars, cmpVars, objVars>>

NextPointSet ==
    \/ PsNewStep
    \/ PsLoadStep
    \/ PsTranslateStep
    \/ PsIntersectStep
    \/ PsDifferenceStep

SpecPointSet == InitPointSet /\ [][NextPointSet]_vars

\* C1: every PointSet obtained by any sequence of new, translate, intersect
\* and difference holds its points in strictly ascending lexicographic
\* order (so it holds no duplicates).
C1_PointSetsStrictlyAscending ==
    StrictlyAscending(psA) /\ StrictlyAscending(psB)

\* The last operation was a translate and each of its sums was computed
\* without rounding
TranslatedExactly ==
    /\ ps_op = "translate"
    /\ \E translator \in PsTranslators :
          psA = [k \in 1..Len(ps_self) |-> PAddExact(ps_self[k], translator)]

\* C1 amended: PointSet::new returns a strictly ascending set, and so does
\* clone; intersect and difference of a strictly ascending receiver return
\* a strictly ascending set; translate of a strictly ascending receiver
\* returns a strictly ascending set when each of its sums is computed
\* without rounding.
C1_StrictlyAscendingWhenExact ==
    /\ StrictlyAscending(psB)
    /\ ps_op = "clone" => StrictlyAscending(psA)
    /\ (ps_op \in {"intersect", "difference"} /\ StrictlyAscending(ps_self)) =>
           StrictlyAscending(psA)
    /\ (TranslatedExactly /\ StrictlyAscending(ps_self)) => StrictlyAscending(psA)

\* C1 witness: a set of several points with a tie on the onset, obtained
\* from raw input by intersect or difference, has been translated by a
\* non-zero vector without rounding.
C1_Witness ==
    /\ TranslatedExactly /\ StrictlyAscending(ps_self)
    /\ Len(psA) >= 2 /\ psA # ps_self
    /\ \E k \in 1..(Len(psA) - 1) : psA[k][1] = psA[k + 1][1]
    /\ \E k \in 1..Len(psB) : psB[k] \notin Range(ps_self)


\* A PointSet is valid when its points are strictly ascending
ValidOperands == StrictlyAscending(ps_self) /\ StrictlyAscending(psB)

\* C17: for valid a and b, a.intersect(b) and b.intersect(a) are the same
\* sequence, and it holds exactly the points that are in both a and b.
C17_IntersectCommutes ==
    (ps_op = "intersect" /\ ValidOperands) =>
        /\ psA = PsIntersect(psB, ps_self)
        /\ Range(psA) = Range(ps_self) \cap Range(psB)

C17_Witness ==
    /\ ps_op = "intersect" /\ ValidOperands
    /\ Len(psA) >= 2
    /\ \E k \in 1..Len(ps_self) : ps_self[k] \notin Range(psB)
    /\ \E k \in 1..Len(psB) : psB[k] \notin Range(ps_self)
    /\ PLess(ps_self[1], psB[1])

\* C18: for valid a and b, a.difference(b) is the strictly ascending
\* sequence of exactly the points of a that are not in b, the points of a
\* after the last point of b included; a.difference(a) is empty.
C18_DifferenceExact ==
    (ps_op = "difference" /\ ValidOperands) =>
        /\ StrictlyAscending(psA)
        /\ Range(psA) = Range(ps_self) \ Range(psB)
        /\ ps_self = psB => psA = <<>>

C18_Witness ==
    /\ ps_op = "difference" /\ ValidOperands
    /\ Len(psB) >= 2
    /\ Len(psA) >= 2
    /\ Len(psA) < Len(ps_self)
    /\ PLess(psB[Len(psB)], psA[Len(psA)])
    /\ PLess(psA[1], psB[1])


\* ------------------------------------------------------- discovery runs: inputs
RECURSIVE SetToSortedSeq(_)
SetToSortedSeq(S) ==
    IF S = {} THEN <<>>
    ELSE LET m == CHOOSE x \in S : \A y \in S : x = y \/ PLess(x, y)
         IN  <<m>> \o SetToSortedSeq(S \ {m})

\* The point sets PointSet::new yields for inputs of at most MaxN grid points
PointSets == {SetToSortedSeq(S) : S \in {T \in SUBSET Grid : Cardinality(T) <= MaxN}}

\* usize arithmetic.  The width is narrowed from 64 to 16 bits; no length of
\* the model comes near either.  A subtraction below zero panics in a build
\* with overflow checks and wraps in a build without them.
UsizeModulus == 2 ^ 16
WrappingSub(a, b) == (a - b) % UsizeModulus

\* Result of a fallible step: a value, or a panic
Ok(v) == [ok |-> TRUE, val |-> v]
Panic == [ok |-> FALSE, val |-> <<>>]

\* The index pairs (i, j) visited by
\*   for i in 0..hi { for j in i + 1..min(n, i + window) { .. } }
\* in visiting order.
LoopPairs(n, hi, window) ==
    SelectSeq([k \in 1..(n * n) |-> <<(k - 1) \div n, (k - 1) % n>>],
              LAMBDA p : p[1] < hi /\ p[1] < p[2] /\ p[2] < Min2(n, p[1] + window))

\* utilities::sort: by difference, then by index
DiffIndLessByIndexOnly(a, b) == a[2] < b[2]
DiffIndLess(a, b) == PLess(a[1], b[1]) \/ (a[1] = b[1] /\ a[2] < b[2])

\* ------------------------------------------------------------------- Sia
\* Sia::compute_differences.  overflow_checks: whether the build panics on
\* arithmetic overflow.
SiaComputeDifferences(ps, overflow_checks) ==
    LET n == Len(ps)
        hi == WrappingSub(n, 1)
    IN  IF n < 1 /\ overflow_checks THEN Panic           \* n - 1 overflows
        ELSE IF hi > n THEN Panic                        \* point_set[i], i >= n
        ELSE LET pairs == LoopPairs(n, hi, n)
                 diffs == [k \in 1..Len(pairs) |->
                             <<PSub(ps[pairs[k][2] + 1], ps[pairs[k][1] + 1]),
                               pairs[k][1]>>]
             IN  Ok(StableSort(diffs, {q \in Pairs(diffs) : DiffIndLess(q[1], q[2])}))

\* The end j of the run of equal differences that starts at index i
RECURSIVE RunEnd(_, _, _)
RunEnd(diffs, i, j) ==
    IF j < Len(diffs) /\ diffs[i + 1][1] = diffs[j + 1][1]
    THEN RunEnd(diffs, i, j + 1)
    ELSE j

\* The indices collected over the run i .. j - 1
RunIndices(diffs, i, j) == [k \in 1..(j - i) |-> diffs[i + k][2]]

Mtp(translator, pattern) == [translator |-> translator, pattern |-> pattern]

InitRunOn(algs, inputs) ==
    /\ alg \in algs
    /\ point_set \in inputs
    /\ status = "start"
    /\ forward_diffs = <<>> /\ fi = 0 /\ intra_diff_freqs = <<>>
    /\ diff_table = <<>> /\ mtps = <<>> /\ tecs = <<>>
    /\ InitIdlePs

InitRun(algs) == InitRunOn(algs, PointSets)

InitSia == InitRun({"Sia"}) /\ InitIdleWin /\ InitIdleCos

\* let forward_diffs = Sia::compute_differences(point_set);
SiaDifferencesStep ==
    /\ alg = "Sia" /\ status = "start"
    /\ \E overflow_checks \in BOOLEAN :
          LET r == SiaComputeDifferences(point_set, overflow_checks)
          IN  /\ status' = IF r.ok THEN "partition" ELSE "panic"
              /\ forward_diffs' = r.val
    /\ fi' = 0
    /\ UNCHANGED <<alg, point_set, intra_diff_freqs, diff_table, mtps, tecs,
                   psVars, winVars, cosVars, cmpVars, objVars>>

\* One iteration of the outer loop of Sia::partition: one run, one MTP
SiaPartitionStep ==
    /\ alg = "Sia" /\ status = "partition"
    /\ fi < Len(forward_diffs)
    /\ LET j == RunEnd(forward_diffs, fi, fi)
           indices == RunIndices(forward_diffs, fi, j)
       IN  /\ mtps' = Append(mtps, Mtp(forward_diffs[fi + 1][1],
                                       GetPattern(point_set, indices)))
           /\ fi' = j
    /\ UNCHANGED <<alg, point_set, status, forward_diffs, intra_diff_freqs,
                   diff_table, tecs, psVars, winVars, cosVars, cmpVars, objVars>>

\* Sia::partition leaves its loop; compute_mtps returns
SiaReturnStep ==
    /\ alg = "Sia" /\ status = "partition"
    /\ fi >= Len(forward_diffs)
    /\ status' = "done"
    /\ UNCHANGED <<alg, point_set, forward_diffs, fi, intra_diff_freqs,
                   diff_table, mtps, tecs, psVars, winVars, cosVars, cmpVars, objVars>>

NextSia == SiaDifferencesStep \/ SiaPartitionStep \/ SiaReturnStep

SpecSia == InitSia /\ [][NextSia]_vars

\* The forward differences of a point set, and the maximal translatable
\* pattern of a vector, by their definitions
ForwardDiffSet(ps) ==
    {PSub(ps[j], ps[i]) : <<i, j>> \in {q \in (1..Len(ps)) \X (1..Len(ps)) : q[1] < q[2]}}
MtpOf(ps, v) == SelectSeq(ps, LAMBDA p : PAdd(p, v) \in Range(ps))

\* C2: for a point set of at least two points Sia emits exactly one MTP per
\* distinct forward difference v, and its pattern is exactly the points p
\* with p + v in the point set, in ascending order.
C2_SiaEmitsExactMtps ==
    (alg = "Sia" /\ Len(point_set) >= 2) =>
        /\ \A k \in 1..Len(mtps) :
              /\ mtps[k].translator \in ForwardDiffSet(point_set)
              /\ mtps[k].pattern = MtpOf(point_set, mtps[k].translator)
              /\ \A l \in 1..Len(mtps) :
                    mtps[l].translator = mtps[k].translator => l = k
        /\ status = "done" =>
              {mtps[k].translator : k \in 1..Len(mtps)} = ForwardDiffSet(point_set)

\* C2 witness: a finished run that emitted an MTP of several points and
\* fewer MTPs than there are index pairs (a difference occurred twice).
C2_Witness ==
    /\ alg = "Sia" /\ status = "done"
    /\ Len(point_set) >= 3
    /\ \E k \in 1..Len(mtps) : Len(mtps[k].pattern) >= 2
    /\ \E k \in 1..Len(mtps) : Len(mtps[k].pattern) = 1


\* ------------------------------------------------------------------ Pattern
\* Pattern::vectorize (of a non-empty pattern)
Vectorize(pattern) == [k \in 1..(Len(pattern) - 1) |-> PSub(pattern[k + 1], pattern[k])]

\* Pattern::translate
PatTranslateTail(pattern, translator) ==
    [k \in 1..Len(pattern) |-> IF k = 1 THEN pattern[k] ELSE PAdd(pattern[k], translator)]
PatTranslate(pattern, translator) ==
    [k \in 1..Len(pattern) |-> PAdd(pattern[k], translator)]

\* Ord for Pattern: first differing point decides, then the length
PatternLess(a, b) ==
    LET shorter_len == Min2(Len(a), Len(b))
        differ == {k \in 1..shorter_len : a[k] # b[k]}
    IN  IF differ = {} THEN Len(a) < Len(b)
        ELSE LET k == CHOOSE d \in differ : \A e \in differ : d <= e
             IN  PLess(a[k], b[k])

Tec(pattern, translators) == [pattern |-> pattern, translators |-> translators]

\* ------------------------------------------------------------------- Siatec
\* Siatec::compute_differences: the difference table and the sorted forward
\* differences.  diff_table[i][j] = point_set[j] - point_set[i].
SiatecComputeDifferences(ps, overflow_checks) ==
    LET n == Len(ps)
    IN  IF n < 1 /\ overflow_checks THEN Panic           \* n * (n - 1) / 2
        ELSE TheOnly({
                 Ok(<<table, StableSort(diffs, {q \in Pairs(diffs) : DiffIndLess(q[1], q[2])})>>) :
                 <<table, diffs>> \in
                     {<<w[1], [k \in 1..Len(w[2]) |->
                                 <<w[1][w[2][k][1] + 1][w[2][k][2] + 1], w[2][k][1]>>]>> :
                      w \in {<<[i \in 1..n |-> [j \in 1..n |-> PSub(ps[j], ps[i])]],
                               LoopPairs(n, n, n)>>}}})

MtpTriple(pattern, indices) ==
    [pattern |-> pattern, vectorized |-> Vectorize(pattern), indices |-> indices]

\* Siatec::partition: (pattern, vectorized pattern, indices) per run
RECURSIVE SiatecPartition(_, _, _, _)
SiatecPartition(ps, diffs, i, mtps_with_indices) ==
    IF i < Len(diffs)
    THEN TheOnly({SiatecPartition(ps, diffs, w[1], w[2]) :
                  w \in {<<j, Append(mtps_with_indices,
                                     MtpTriple(GetPattern(ps, RunIndices(diffs, i, j)),
                                               RunIndices(diffs, i, j)))>> :
                         j \in {RunEnd(diffs, i, i)}}})
    ELSE mtps_with_indices

\* The comparator of the sort in remove_translational_duplicates
VectorizedLess(a, b) ==
    \/ Len(a.vectorized) < Len(b.vectorized)
    \/ Len(a.vectorized) = Len(b.vectorized) /\ PatternLess(a.vectorized, b.vectorized)

\* The scan that keeps the first triple of every run of equal vectorized forms
RECURSIVE DistinctScan(_, _, _, _)
DistinctScan(sorted, k, vec_representation, distinct_mtps) ==
    IF k > Len(sorted) THEN distinct_mtps
    ELSE IF sorted[k].vectorized # vec_representation
         THEN DistinctScan(sorted, k + 1, sorted[k].vectorized,
                           Append(distinct_mtps, sorted[k]))
         ELSE DistinctScan(sorted, k + 1, vec_representation, distinct_mtps)

\* The scan alone, without the sort before it
RemoveAdjacentDuplicates(mtps_with_indices) ==
    IF Len(mtps_with_indices) = 0 THEN Panic
    ELSE Ok(DistinctScan(mtps_with_indices, 1, mtps_with_indices[1].vectorized,
                         <<mtps_with_indices[1]>>))

\* Siatec::remove_translational_duplicates
RemoveTranslationalDuplicates(mtps_with_indices) ==
    TheOnly({IF Len(sorted) = 0 THEN Panic               \* mtps_with_indices[0]
             ELSE Ok(DistinctScan(sorted, 1, sorted[1].vectorized, <<sorted[1]>>)) :
             sorted \in {StableSort(mtps_with_indices,
                             {q \in Pairs(mtps_with_indices) : VectorizedLess(q[1], q[2])})}})

\* find_translators, inner while: advance the row of one column to the first
\* entry not below vec
RECURSIVE AdvanceRowStuck(_, _, _, _, _)
AdvanceRowStuck(table, n, c, row, vec) == row
RECURSIVE AdvanceRow(_, _, _, _, _)
AdvanceRow(table, n, c, row, vec) ==
    IF row < n /\ PLess(table[c + 1][row + 1], vec)
    THEN AdvanceRow(table, n, c, row + 1, vec)
    ELSE row

\* find_translators, for col in 1..pat_len: TRUE when the last column matched
RECURSIVE ScanColumns(_, _, _, _, _, _)
ScanColumns(table, n, col_ind, r0, vec, col) ==
    IF col >= Len(col_ind) THEN FALSE
    ELSE LET row == AdvanceRow(table, n, col_ind[col + 1], r0 + col, vec)
         IN  IF row >= n \/ vec # table[col_ind[col + 1] + 1][row + 1] THEN FALSE
             ELSE IF col = Len(col_ind) - 1 THEN TRUE
             ELSE ScanColumns(table, n, col_ind, r0, vec, col + 1)

\* Siatec::find_translators, outer while over row_ind[0]
RECURSIVE FindTranslatorsLoop(_, _, _, _, _)
FindTranslatorsLoop(table, n, col_ind, r0, translators) ==
    LET pat_len == Len(col_ind)
    IN  IF r0 <= n - pat_len
        THEN TheOnly({FindTranslatorsLoop(table, n, col_ind, r0 + 1, next) :
                      next \in {IF (ScanColumns(table, n, col_ind, r0, vec, 1) \/ pat_len = 1)
                                    /\ ~IsZero(vec)
                                 THEN Append(translators, vec) ELSE translators :
                                 vec \in {table[col_ind[1] + 1][r0 + 1]}}})
        ELSE translators

FindTranslators(n, mtp, table) == FindTranslatorsLoop(table, n, mtp.indices, 0, <<>>)

RemoveDuplicates(a) == a = "SiatecRD"

InitSiatec == InitRun({"Siatec", "SiatecRD"}) /\ InitIdleWin /\ InitIdleCos

\* let (diff_table, forward_diffs) = Siatec::compute_differences(point_set);
SiatecDifferencesStep ==
    /\ alg \in {"Siatec", "SiatecRD"} /\ status = "start"
    /\ \E overflow_checks \in BOOLEAN :
          \E r \in {SiatecComputeDifferences(point_set, overflow_checks)} :
              /\ status' = IF r.ok THEN "partition" ELSE "panic"
              /\ diff_table' = IF r.ok THEN r.val[1] ELSE <<>>
              /\ forward_diffs' = IF r.ok THEN r.val[2] ELSE <<>>
    /\ UNCHANGED <<alg, point_set, fi, intra_diff_freqs, mtps, tecs,
                   psVars, winVars, cosVars, cmpVars, objVars>>

\* let mut mtps_with_indices = Siatec::partition(point_set, &forward_diffs);
SiatecPartitionStep ==
    /\ alg \in {"Siatec", "SiatecRD"} /\ status = "partition"
    /\ mtps' = SiatecPartition(point_set, forward_diffs, 0, <<>>)
    /\ status' = "select"
    /\ UNCHANGED <<alg, point_set, forward_diffs, fi, intra_diff_freqs,
                   diff_table, tecs, psVars, winVars, cosVars, cmpVars, objVars>>

\* if self.remove_duplicates { remove_translational_duplicates } else { copy }
SiatecSelectStep ==
    /\ alg \in {"Siatec", "SiatecRD"} /\ status = "select"
    /\ \E r \in {IF RemoveDuplicates(alg)
                  THEN RemoveTranslationalDuplicates(mtps) ELSE Ok(mtps)} :
           /\ status' = IF r.ok THEN "translators" ELSE "panic"
           /\ mtps' = r.val
    /\ fi' = 0
    /\ UNCHANGED <<alg, point_set, forward_diffs, intra_diff_freqs,
                   diff_table, tecs, psVars, winVars, cosVars, cmpVars, objVars>>

\* One iteration of the loop over mtps: find_translators, then on_output
SiatecTranslatorsStep ==
    /\ alg \in {"Siatec", "SiatecRD"} /\ status = "translators"
    /\ fi < Len(mtps)
    /\ tecs' = Append(tecs, Tec(mtps[fi + 1].pattern,
                                FindTranslators(Len(point_set), mtps[fi + 1], diff_table)))
    /\ fi' = fi + 1
    /\ UNCHANGED <<alg, point_set, status, forward_diffs, intra_diff_freqs,
                   diff_table, mtps, psVars, winVars, cosVars, cmpVars, objVars>>

SiatecReturnStep ==
    /\ alg \in {"Siatec", "SiatecRD"} /\ status = "translators"
    /\ fi >= Len(mtps)
    /\ status' = "done"
    /\ UNCHANGED <<alg, point_set, forward_diffs, fi, intra_diff_freqs,
                   diff_table, mtps, tecs, psVars, winVars, cosVars, cmpVars, objVars>>

NextSiatec ==
    \/ SiatecDifferencesStep
    \/ SiatecPartitionStep
    \/ SiatecSelectStep
    \/ SiatecTranslatorsStep
    \/ SiatecReturnStep

SpecSiatec == InitSiatec /\ [][NextSiatec]_vars

\* Every non-zero vector that maps the whole pattern into the point set:
\* the set by its definition, with the sums and differences of the plane
AllTranslators(ps, pattern) ==
    {v \in {<<q[1] - pattern[1][1], q[2] - pattern[1][2]>> : q \in Range(ps)} :
        ~IsZero(v) /\ \A k \in 1..Len(pattern) : PAddExact(pattern[k], v) \in Range(ps)}

\* C3: the translator list of every Tec emitted by Siatec is exactly the
\* set of non-zero vectors that map the whole pattern into the point set
\* (negative directions included), each once, in ascending order.
C3_SiatecTranslatorsExact ==
    alg \in {"Siatec", "SiatecRD"} =>
        \A k \in 1..Len(tecs) :
            tecs[k].translators = SetToSortedSeq(AllTranslators(point_set, tecs[k].pattern))

\* C3 witness: a finished run has emitted a Tec with a translator in the
\* negative and one in the positive direction, and a Tec of a pattern of
\* several points with a translator.
C3_Witness ==
    /\ alg \in {"Siatec", "SiatecRD"} /\ status = "done"
    /\ \E k \in 1..Len(tecs) :
          /\ \E a \in 1..Len(tecs[k].translators) : PLess(tecs[k].translators[a], ZeroPoint)
          /\ \E a \in 1..Len(tecs[k].translators) : PLess(ZeroPoint, tecs[k].translators[a])
    /\ \E k \in 1..Len(tecs) :
          Len(tecs[k].pattern) >= 2 /\ Len(tecs[k].translators) >= 1

\* -------------------------------------------------- SiatecC / SiatecCH
\* SiatecC::ioi
Ioi(a, b) == Onset(b) - Onset(a)

\* compute_forward_diffs, inner loop: the entries (diff, [i, j]) of source i
RECURSIVE ForwardRowNarrow(_, _, _, _, _)
ForwardRowNarrow(ps, i, j, limit, row) ==
    IF j >= Len(ps) THEN row
    ELSE LET diff == PSub(ps[j + 1], ps[i + 1])
         IN  IF diff[1] >= limit THEN row
             ELSE ForwardRowNarrow(ps, i, j + 1, limit, Append(row, <<diff, <<i, j>>>>))

RECURSIVE ForwardRow(_, _, _, _, _)
ForwardRow(ps, i, j, limit, row) ==
    IF j >= Len(ps) THEN row
    ELSE LET diff == PSub(ps[j + 1], ps[i + 1])
         IN  IF diff[1] > limit THEN row
             ELSE ForwardRow(ps, i, j + 1, limit, Append(row, <<diff, <<i, j>>>>))

RECURSIVE ForwardRows(_, _, _, _)
ForwardRows(ps, i, limit, diffs) ==
    IF i >= Len(ps) - 1 THEN diffs
    ELSE ForwardRows(ps, i + 1, limit, diffs \o ForwardRow(ps, i, i + 1, limit, <<>>))

\* SiatecC::sort_with_ind_pairs comparator
IndPairLess(a, b) == PLess(a[1], b[1]) \/ (a[1] = b[1] /\ a[2][1] < b[2][1])
SortWithIndPairs(diffs) == StableSort(diffs, {q \in Pairs(diffs) : IndPairLess(q[1], q[2])})

\* SiatecC::partition_by_diff_vector
RECURSIVE PartitionByDiffVector(_, _, _)
PartitionByDiffVector(diffs, i, index) ==
    IF i < Len(diffs)
    THEN TheOnly({PartitionByDiffVector(diffs, j,
                      Append(index, <<diffs[from + 1][1], RunIndices(diffs, from, j)>>)) :
                  <<from, j>> \in {<<k, RunEnd(diffs, k, k)>> : k \in {i}}})
    ELSE index

\* SiatecC::compute_diff_index: a vector sorted by difference.  With an
\* empty point set n - 1 either panics or wraps, and then point_set[0]
\* is out of range.
CComputeDiffIndex(ps, limit) ==
    IF Len(ps) < 1 THEN Panic
    ELSE Ok(TheOnly({PartitionByDiffVector(sorted, 0, <<>>) :
                        sorted \in {SortWithIndPairs(ForwardRows(ps, 0, limit, <<>>))}}))

\* The index pairs of one difference, in insertion order
PairsOf(diffs, d) ==
    LET hits == SelectSeq(diffs, LAMBDA e : e[1] = d)
    IN  [k \in 1..Len(hits) |-> hits[k][2]]

\* SiatecCH::compute_diff_index: a hash map from difference to index pairs
ChComputeDiffIndex(ps, limit) ==
    IF Len(ps) < 1 THEN Panic
    ELSE Ok(TheOnly({[d \in {diffs[k][1] : k \in 1..Len(diffs)} |-> PairsOf(diffs, d)] :
                        diffs \in {ForwardRows(ps, 0, limit, <<>>)}}))

\* SiatecC::init_window_upper_bounds: the f64 sum onset + max_ioi, rounded
InitWindowUpperBounds(ps, limit) ==
    [k \in 1..Len(ps) |-> F64Round(Onset(ps[k]) + limit)]

\* window_bounds[i] += self.max_ioi: the f64 sum, rounded; where max_ioi is
\* less than half the distance to the next value the bound stays as it is
RaiseBound(bound, limit) == F64Round(bound + limit)

RECURSIVE WindowRowSkipping(_, _, _, _, _)
WindowRowSkipping(ps, i, j, bound, row) ==
    IF j >= Len(ps) THEN [row |-> row, stop |-> Len(ps), exceeded |-> FALSE]
    ELSE IF i = j THEN WindowRowSkipping(ps, i, j + 1, bound, row)
    ELSE IF Onset(ps[j + 1]) > bound THEN [row |-> row, stop |-> j + 1, exceeded |-> TRUE]
    ELSE WindowRowSkipping(ps, i, j + 1, bound,
                           Append(row, <<PSub(ps[j + 1], ps[i + 1]), <<i, j>>>>))
\* compute_forward_diffs_within_window, inner loop over j for source i:
\* the entries pushed, the j at which the loop stopped and whether the
\* onset bound was exceeded there
RECURSIVE WindowRow(_, _, _, _, _)
WindowRow(ps, i, j, bound, row) ==
    IF j >= Len(ps) THEN [row |-> row, stop |-> Len(ps), exceeded |-> FALSE]
    ELSE IF i = j THEN WindowRow(ps, i, j + 1, bound, row)
    ELSE IF Onset(ps[j + 1]) > bound THEN [row |-> row, stop |-> j, exceeded |-> TRUE]
    ELSE WindowRow(ps, i, j + 1, bound,
                   Append(row, <<PSub(ps[j + 1], ps[i + 1]), <<i, j>>>>))

\* compute_forward_diffs_within_window, loop over the sources 0 .. n - 2
RECURSIVE WindowLoop(_, _, _, _, _, _)
WindowLoop(ps, limit, i, t_ind, w_bounds, diffs) ==
    IF i >= Len(ps) - 1
    THEN [forward_diffs |-> diffs, target_indices |-> t_ind, window_bounds |-> w_bounds]
    ELSE IF t_ind[i + 1] >= Len(ps)
    THEN WindowLoop(ps, limit, i + 1, t_ind, w_bounds, diffs)
    ELSE TheOnly({WindowLoop(ps, limit, i + 1,
                      [t_ind EXCEPT ![i + 1] = r.stop],
                      [w_bounds EXCEPT ![i + 1] =
                           IF r.exceeded THEN RaiseBound(@, limit) ELSE @],
                      diffs \o r.row) :
                  r \in {WindowRow(ps, i, t_ind[i + 1], w_bounds[i + 1], <<>>)}})

ComputeForwardDiffsWithinWindow(ps, limit, t_ind, w_bounds) ==
    WindowLoop(ps, limit, 0, t_ind, w_bounds, <<>>)

MtpWithIndices(translator, ps, ind_pairs) ==
    LET source_indices == [k \in 1..Len(ind_pairs) |-> ind_pairs[k][1]]
    IN  [translator |-> translator,
         pattern |-> GetPattern(ps, source_indices),
         source_indices |-> source_indices,
         target_indices |-> [k \in 1..Len(ind_pairs) |-> ind_pairs[k][2]]]

\* SiatecC::partition_to_mtps: sort, then one MTP per run of equal differences
RECURSIVE CPartitionLoop(_, _, _, _)
CPartitionLoop(ps, diffs, i, acc) ==
    IF i < Len(diffs)
    THEN TheOnly({CPartitionLoop(ps, diffs, j,
                      Append(acc, MtpWithIndices(diffs[from + 1][1], ps,
                                                 RunIndices(diffs, from, j)))) :
                  <<from, j>> \in {<<k, RunEnd(diffs, k, k)>> : k \in {i}}})
    ELSE acc

CPartitionToMtps(ps, diffs) ==
    TheOnly({CPartitionLoop(ps, sorted, 0, <<>>) : sorted \in {SortWithIndPairs(diffs)}})

\* The sequences that hold every element of S once
RECURSIVE KeyPermutations(_)
KeyPermutations(S) ==
    IF S = {} THEN {<<>>}
    ELSE UNION {{<<x>> \o rest : rest \in KeyPermutations(S \ {x})} : x \in S}

\* SiatecCH::partition_to_mtps visits the hash map in its iteration order,
\* which follows the hashes of the keys and the history of the map: the
\* code controls none of it, so every order of the keys is possible.
KeyOrders(diffs) == KeyPermutations({diffs[k][1] : k \in 1..Len(diffs)})

ChPartitionToMtps(ps, diffs, order) ==
    [k \in 1..Len(order) |-> MtpWithIndices(order[k], ps, PairsOf(diffs, order[k]))]

\* if ioi > max_ioi { start a new split }
GapNeverExceeds(ioi, limit) == FALSE
GapExceeds(ioi, limit) == ioi > limit

SplitTriple(pattern, source_ind, target_ind) ==
    [pattern |-> pattern, source_ind |-> source_ind, target_ind |-> target_ind]

\* SiatecC::split_pattern_on_ioi_gaps, the loop over the pattern; cur is
\* the split being filled (its three vectors) and prev the previous point
RECURSIVE SplitLoop(_, _, _, _, _, _)
SplitLoop(mtp, limit, i, prev, cur, split_patterns) ==
    IF i >= Len(mtp.pattern)
    THEN IF Len(cur.pattern) # 0 THEN Append(split_patterns, cur) ELSE split_patterns
    ELSE LET p == mtp.pattern[i + 1]
             cut == GapExceeds(Ioi(prev, p), limit)
         IN  TheOnly({SplitLoop(mtp, limit, i + 1, p,
                          SplitTriple(Append(base.pattern, p),
                                      Append(base.source_ind, mtp.source_indices[i + 1]),
                                      Append(base.target_ind, mtp.target_indices[i + 1])),
                          IF cut THEN Append(split_patterns, full) ELSE split_patterns) :
                      <<base, full>> \in {<<IF cut THEN SplitTriple(<<>>, <<>>, <<>>) ELSE cur,
                                            cur>>}})

SplitPatternOnIoiGaps(mtp, limit) ==
    SplitLoop(mtp, limit, 0, mtp.pattern[1], SplitTriple(<<>>, <<>>, <<>>), <<>>)

\* The concatenation of the sequences seqs[from], seqs[from + 1], ...
RECURSIVE FlattenFrom(_, _)
FlattenFrom(seqs, from) ==
    IF from > Len(seqs) THEN <<>> ELSE seqs[from] \o FlattenFrom(seqs, from + 1)

Flatten(seqs) == TheOnly({FlattenFrom(s, 1) : s \in {seqs}})

\* SiatecC::split_mtps_on_ioi: all splits, stably sorted by descending length
SplitMtpsOnIoi(mtp_triples, limit) ==
    TheOnly({StableSort(split_mtps,
                 {q \in Pairs(split_mtps) : Len(q[2].pattern) < Len(q[1].pattern)}) :
             split_mtps \in {Flatten([k \in 1..Len(mtp_triples) |->
                                  SplitPatternOnIoiGaps(mtp_triples[k], limit)])}})

\* SiatecC::improves_cover
ImprovesCover(cov, source_ind, target_ind, pattern_len) ==
    \/ \E k \in 1..Len(source_ind) : cov[source_ind[k] + 1] < pattern_len
    \/ \E k \in 1..Len(target_ind) : cov[target_ind[k] + 1] < pattern_len

\* SiatecC::find_indices: binary search; on a miss the entry at the
\* insertion point, or the last entry
CFindIndices(index, translation) ==
    LET hits == {k \in 1..Len(index) : index[k][1] = translation}
        at == Cardinality({k \in 1..Len(index) : PLess(index[k][1], translation)})
    IN  IF hits # {} THEN Ok(index[CHOOSE k \in hits : TRUE][2])
        ELSE IF Len(index) = 0 THEN Panic
        ELSE IF at >= Len(index) THEN Ok(index[Len(index)][2])
        ELSE Ok(index[at + 1][2])

\* SiatecCH::find_indices: a miss panics
ChFindIndices(index, translation) ==
    IF translation \in DOMAIN index THEN Ok(index[translation]) ELSE Panic

FindIndices(a, index, translation) ==
    IF a = "SiatecC" THEN CFindIndices(index, translation)
    ELSE ChFindIndices(index, translation)

\* match_index_pairs: the side of an index pair that is tested
TestIndexSwapped(forward) == IF forward THEN 1 ELSE 0
TestIndex(forward) == IF forward THEN 0 ELSE 1
MatchIndex(forward) == IF forward THEN 1 ELSE 0

\* SiatecC::match_index_pairs, the merge loop
RECURSIVE MatchLoop(_, _, _, _, _, _)
MatchLoop(t_ind, index_pairs, forward, j, k, matching_ind) ==
    IF j < Len(t_ind) /\ k < Len(index_pairs)
    THEN LET test == index_pairs[k + 1][TestIndex(forward) + 1]
         IN  IF t_ind[j + 1] = test
             THEN MatchLoop(t_ind, index_pairs, forward, j + 1, k + 1,
                      Append(matching_ind, index_pairs[k + 1][MatchIndex(forward) + 1]))
             ELSE IF t_ind[j + 1] < test
             THEN MatchLoop(t_ind, index_pairs, forward, j + 1, k, matching_ind)
             ELSE MatchLoop(t_ind, index_pairs, forward, j, k + 1, matching_ind)
    ELSE matching_ind

MatchIndexPairs(t_ind, index_pairs, forward) ==
    TheOnly({MatchLoop(q[1], q[2], forward, 0, 0, <<>>) : q \in {<<t_ind, index_pairs>>}})

\* find_translators_update_cover: for i in 1..vectorized.len()
RECURSIVE ForwardChain(_, _, _)
ForwardChain(lookups, i, t_ind) ==
    IF i >= Len(lookups) THEN t_ind
    ELSE ForwardChain(lookups, i + 1, MatchIndexPairs(t_ind, lookups[i + 1], TRUE))

\* cover[*c] = max(cover[*c], pattern.len())
CoverOverwrite(old, pattern_len) == pattern_len
CoverValue(old, pattern_len) == Max2(old, pattern_len)

RECURSIVE MarkCover(_, _, _, _)
MarkCover(cov, cover_indices, k, pattern_len) ==
    IF k > Len(cover_indices) THEN cov
    ELSE MarkCover([cov EXCEPT ![cover_indices[k] + 1] = CoverValue(@, pattern_len)],
                   cover_indices, k + 1, pattern_len)

\* SiatecC::update_cover: for i in (0..vectorized.len()).rev()
RECURSIVE UpdateCover(_, _, _, _, _)
UpdateCover(lookups, cov, i, cover_indices, pattern_len) ==
    IF i < 0 THEN cov
    ELSE TheOnly({UpdateCover(lookups, marked, i - 1, matched, pattern_len) :
                     <<matched, marked>> \in
                         {<<m, MarkCover(cov, m, 1, pattern_len)>> :
                              m \in {MatchIndexPairs(cover_indices, lookups[i + 1], FALSE)}}})

\* find_translators_update_cover: the translators and the updated cover
FindTranslatorsUpdateCover(a, pattern, index, ps, cov) ==
    LET vectorized == Vectorize(pattern)
        found == [k \in 1..Len(vectorized) |-> FindIndices(a, index, vectorized[k])]
    IN  IF \E k \in 1..Len(found) : ~found[k].ok THEN Panic
        ELSE TheOnly({
                 LET first == [k \in 1..Len(lookups[1]) |-> lookups[1][k][2]]
                 IN  TheOnly({
                         LET last_point == pattern[Len(pattern)]
                             all == [k \in 1..Len(t_ind) |->
                                        PSub(ps[t_ind[k] + 1], last_point)]
                         IN  Ok([translators |-> SelectSeq(all, LAMBDA v : ~IsZero(v)),
                                 cover |-> UpdateCover(lookups, cov, Len(lookups) - 1,
                                                       t_ind, Len(pattern))]) :
                         t_ind \in {ForwardChain(lookups, 1, first)}}) :
                 lookups \in {[k \in 1..Len(found) |-> found[k].val]}})

WindowAlgs == {"SiatecC", "SiatecCH"}

\* The input point sets of the window algorithms: onsets 0 .. WinMaxX,
\* two pitches
WinPitches == {0, 1}
WinGrid == (0..WinMaxX) \X WinPitches

\* Inputs whose onsets lie around F64Exact, where a sum onset + max_ioi
\* is rounded: FarSpan values on either side of F64Exact, one pitch
FarOnsets == {x \in (F64Exact - FarSpan)..(F64Exact + FarSpan) : F64Round(x) = x}
FarPointSets(maxN) ==
    {SetToSortedSeq(S) : S \in {T \in SUBSET (FarOnsets \X {0}) :
                                    Cardinality(T) >= 2 /\ Cardinality(T) <= maxN}}

WinPointSets ==
    {SetToSortedSeq(S) : S \in {T \in SUBSET WinGrid : Cardinality(T) <= WinMaxN}}
        \cup FarPointSets(WinMaxN)

\* The inputs of SiatecCH stay within ChMaxN points
WithinHashBound(a, ps) == a = "SiatecCH" => Len(ps) <= ChMaxN

InitSiatecC ==
    /\ InitRunOn(WindowAlgs, WinPointSets) /\ InitIdleCos
    /\ WithinHashBound(alg, point_set)
    /\ max_ioi \in 1..MaxIoi /\ siar_r = 0
    /\ diff_index = <<>> /\ target_indices = <<>> /\ window_bounds = <<>>
    /\ cover = <<>> /\ split_triples = <<>>

\* let diff_index = self.compute_diff_index(point_set);
CDiffIndexStep ==
    /\ alg \in WindowAlgs /\ status = "start"
    /\ \E r \in {IF alg = "SiatecC" THEN CComputeDiffIndex(point_set, max_ioi)
                  ELSE ChComputeDiffIndex(point_set, max_ioi)} :
           /\ status' = IF r.ok THEN "init" ELSE "panic"
           /\ diff_index' = r.val
    /\ UNCHANGED <<alg, point_set, forward_diffs, fi, intra_diff_freqs, diff_table,
                   mtps, tecs, max_ioi, siar_r, target_indices, window_bounds, cover,
                   split_triples, psVars, cosVars, cmpVars, objVars>>

\* compute_split_mtp_tecs up to its while loop
CInitStep ==
    /\ alg \in WindowAlgs /\ status = "init"
    /\ target_indices' = [k \in 1..Len(point_set) |-> k - 1]
    /\ window_bounds' = InitWindowUpperBounds(point_set, max_ioi)
    /\ cover' = [k \in 1..Len(point_set) |-> 0]
    /\ status' = "loop"
    /\ UNCHANGED <<alg, point_set, forward_diffs, fi, intra_diff_freqs, diff_table,
                   mtps, tecs, max_ioi, siar_r, diff_index, split_triples, psVars, cosVars, cmpVars, objVars>>

\* Head of one outer iteration: the window differences, the MTPs and
\* the sorted split triples
CWindowStep ==
    /\ alg \in WindowAlgs /\ status = "loop"
    /\ target_indices[1] < Len(point_set)
    /\ \E w \in {ComputeForwardDiffsWithinWindow(point_set, max_ioi,
                                                  target_indices, window_bounds)} :
           /\ target_indices' = w.target_indices
           /\ window_bounds' = w.window_bounds
           /\ forward_diffs' = IF alg = "SiatecC" THEN SortWithIndPairs(w.forward_diffs)
                                ELSE w.forward_diffs
           /\ IF alg = "SiatecC"
              THEN mtps' = CPartitionToMtps(point_set, w.forward_diffs)
              ELSE \E order \in KeyOrders(w.forward_diffs) :
                      mtps' = ChPartitionToMtps(point_set, w.forward_diffs, order)
    /\ split_triples' = SplitMtpsOnIoi(mtps', max_ioi)
    /\ fi' = 0
    /\ status' = "triples"
    /\ UNCHANGED <<alg, point_set, intra_diff_freqs, diff_table,
                   tecs, max_ioi, siar_r, diff_index, cover, psVars, cosVars, cmpVars, objVars>>

\* One iteration of the loop over split_triples
CTripleStep ==
    /\ alg \in WindowAlgs /\ status = "triples"
    /\ fi < Len(split_triples)
    /\ LET t == split_triples[fi + 1]
       IN  IF Len(t.pattern) > 1
              /\ ImprovesCover(cover, t.source_ind, t.target_ind, Len(t.pattern))
           THEN \E r \in {FindTranslatorsUpdateCover(alg, t.pattern, diff_index,
                                                      point_set, cover)} :
                    IF r.ok
                    THEN /\ tecs' = Append(tecs, Tec(t.pattern, r.val.translators))
                         /\ cover' = r.val.cover
                         /\ status' = status
                    ELSE /\ status' = "panic"
                         /\ UNCHANGED <<tecs, cover>>
           ELSE UNCHANGED <<tecs, cover, status>>
    /\ fi' = fi + 1
    /\ UNCHANGED <<alg, point_set, forward_diffs, intra_diff_freqs, diff_table,
                   mtps, max_ioi, siar_r, diff_index, target_indices, window_bounds,
                   split_triples, psVars, cosVars, cmpVars, objVars>>

\* The loop over split_triples is exhausted: back to the while test
CNextIterationStep ==
    /\ alg \in WindowAlgs /\ status = "triples"
    /\ fi >= Len(split_triples)
    /\ status' = "loop"
    /\ UNCHANGED <<alg, point_set, forward_diffs, fi, intra_diff_freqs, diff_table,
                   mtps, tecs, winVars, psVars, cosVars, cmpVars, objVars>>

\* while target_indices[0] < n fails: compute_tecs returns
CReturnStep ==
    /\ alg \in WindowAlgs /\ status = "loop"
    /\ target_indices[1] >= Len(point_set)
    /\ status' = "done"
    /\ UNCHANGED <<alg, point_set, forward_diffs, fi, intra_diff_freqs, diff_table,
                   mtps, tecs, winVars, psVars, cosVars, cmpVars, objVars>>

\* The comparator of the sort in SiatecC::remove_translational_duplicates
TecVectorizedLess(a, b) ==
    \/ Len(Vectorize(a.pattern)) < Len(Vectorize(b.pattern))
    \/ /\ Len(Vectorize(a.pattern)) = Len(Vectorize(b.pattern))
       /\ PatternLess(Vectorize(a.pattern), Vectorize(b.pattern))

\* SiatecC::remove_translational_duplicates: a stable sort by vectorized
\* pattern, then dedup_by keeps the first Tec of every run of equal
\* vectorized patterns
CRemoveTranslationalDuplicates(list) ==
    TheOnly({[i \in 1..Len(keep) |-> sorted[keep[i]]] :
             <<sorted, keep>> \in
                 {<<srt, SelectSeq([k \in 1..Len(srt) |-> k],
                                   LAMBDA k : k = 1 \/ Vectorize(srt[k].pattern)
                                                          # Vectorize(srt[k - 1].pattern))>> :
                  srt \in {StableSort(list, {q \in Pairs(list) :
                                                TecVectorizedLess(q[1], q[2])})}}})

\* The caller of compute_tecs hands the returned vector to
\* SiatecC::remove_translational_duplicates(&mut tecs)
CRemoveDuplicatesStep ==
    /\ alg \in WindowAlgs /\ status = "done"
    /\ cos_status = "idle" /\ cmp_status = "idle"
    /\ tecs' = CRemoveTranslationalDuplicates(tecs)
    /\ status' = "deduplicated"
    /\ UNCHANGED <<alg, point_set, forward_diffs, fi, intra_diff_freqs, diff_table,
                   mtps, winVars, psVars, cosVars, cmpVars, objVars>>

\* compute_tecs_to_output of SiatecC / SiatecCH
NextWindowTecs ==
    \/ CDiffIndexStep
    \/ CInitStep
    \/ CWindowStep
    \/ CTripleStep
    \/ CNextIterationStep
    \/ CReturnStep

NextSiatecC == NextWindowTecs \/ CRemoveDuplicatesStep

SpecSiatecC == InitSiatecC /\ [][NextSiatecC]_vars

\* Termination is checked on the runs over the smaller inputs.  The
\* algorithm is one thread that runs until it returns or panics: every
\* step that can be taken is taken.
LivePointSets ==
    {SetToSortedSeq(S) : S \in {T \in SUBSET ((0..LiveMaxX) \X WinPitches) :
                                    Cardinality(T) <= LiveMaxN}}
        \cup FarPointSets(LiveMaxN)

InitSiatecCLive ==
    /\ InitSiatecC /\ point_set \in LivePointSets
    /\ (alg = "SiatecCH" => Len(point_set) <= LiveChMaxN)

FairSpecSiatecC == InitSiatecCLive /\ [][NextWindowTecs]_vars /\ WF_vars(NextWindowTecs)

\* C4: the translators of every Tec emitted by SiatecC / SiatecCH are
\* exactly the non-zero vectors that map the whole pattern into the point
\* set: each of them yields an occurrence inside the point set, and none
\* is missing (they come in ascending order, each once).
C4_WindowTranslatorsExact ==
    alg \in WindowAlgs =>
        \A k \in 1..Len(tecs) :
            tecs[k].translators = SetToSortedSeq(AllTranslators(point_set, tecs[k].pattern))

\* C4 witness: SiatecC or SiatecCH has emitted a Tec whose chain resolved a
\* translator in the negative and one in the positive direction.
C4_Witness ==
    /\ alg \in WindowAlgs
    /\ \E k \in 1..Len(tecs) :
          /\ \E a \in 1..Len(tecs[k].translators) : PLess(tecs[k].translators[a], ZeroPoint)
          /\ \E a \in 1..Len(tecs[k].translators) : PLess(ZeroPoint, tecs[k].translators[a])

\* The number of entries of a sequence equal to a value
Count(s, v) == Cardinality({k \in 1..Len(s) : s[k] = v})

\* The split triples of all MTPs of the iteration, MTP by MTP
AllSplits(mtp_triples, limit) ==
    Flatten([k \in 1..Len(mtp_triples) |-> SplitPatternOnIoiGaps(mtp_triples[k], limit)])

\* Splitting one MTP keeps every point, source index and target index,
\* in order, in exactly one sub-pattern
SplitKeepsAll(mtp, limit) ==
    LET parts == SplitPatternOnIoiGaps(mtp, limit)
    IN  /\ Flatten([k \in 1..Len(parts) |-> parts[k].pattern]) = mtp.pattern
        /\ Flatten([k \in 1..Len(parts) |-> parts[k].source_ind]) = mtp.source_indices
        /\ Flatten([k \in 1..Len(parts) |-> parts[k].target_ind]) = mtp.target_indices
        /\ \A k \in 1..Len(parts) :
              /\ Len(parts[k].pattern) >= 1
              /\ Len(parts[k].source_ind) = Len(parts[k].pattern)
              /\ Len(parts[k].target_ind) = Len(parts[k].pattern)

\* C5: every pattern emitted by SiatecC / SiatecCH has at least two points
\* and no onset gap above max_ioi between consecutive points; the split
\* triples of an iteration are the sub-patterns of its MTPs, and splitting
\* an MTP keeps every point, source index and target index, in order, in
\* exactly one sub-pattern.
C5_SplitPatternsWithinIoi ==
    alg \in WindowAlgs =>
        /\ \A k \in 1..Len(tecs) :
              /\ Len(tecs[k].pattern) >= 2
              /\ \A a \in 1..(Len(tecs[k].pattern) - 1) :
                    Ioi(tecs[k].pattern[a], tecs[k].pattern[a + 1]) <= max_ioi
        /\ \A k \in 1..Len(mtps) : SplitKeepsAll(mtps[k], max_ioi)
        /\ Len(split_triples) = Len(AllSplits(mtps, max_ioi))
        /\ \A k \in 1..Len(split_triples) :
              Count(split_triples, split_triples[k])
                  = Count(AllSplits(mtps, max_ioi), split_triples[k])

\* C5 witness: an MTP of this iteration was split at a gap, and a
\* sub-pattern of it with several points has been emitted.
C5_Witness ==
    /\ alg \in WindowAlgs /\ status = "triples"
    /\ \E k \in 1..Len(mtps) :
          LET parts == SplitPatternOnIoiGaps(mtps[k], max_ioi)
          IN  /\ Len(parts) >= 2
              /\ \E a \in 1..Len(parts) :
                    /\ Len(parts[a].pattern) >= 2
                    /\ \E b \in 1..Len(tecs) : tecs[b].pattern = parts[a].pattern

\* C7: for every point set of at least two points and every max_ioi > 0
\* the main loop of SiatecC / SiatecCH terminates: the run reaches its
\* return.
C7_WindowLoopTerminates ==
    (alg \in WindowAlgs /\ Len(point_set) >= 2 /\ max_ioi > 0) ~> (status = "done")

\* The lengths of the patterns emitted so far
EmittedLengths == {Len(tecs[k].pattern) : k \in 1..Len(tecs)}

\* A step of the main loop keeps or raises every entry of cover, and
\* leaves each at 0 or at the length of an emitted pattern
CoverStepMonotone ==
    (alg \in WindowAlgs /\ status \in {"loop", "triples"}) =>
        /\ Len(cover') = Len(cover)
        /\ \A i \in 1..Len(cover) :
              /\ cover'[i] >= cover[i]
              /\ cover'[i] \in ({0} \cup EmittedLengths')

\* C8: in a run of SiatecC / SiatecCH no entry of cover decreases in a
\* step, and every entry is 0 or the length of a pattern already emitted.
C8_CoverMonotone == [][CoverStepMonotone]_vars

\* C8 witness: a point that is not the last of either pattern lies in an
\* emitted pattern and in a shorter pattern emitted after it, and its cover
\* entry has stayed at the greater length.
C8_Witness ==
    /\ alg \in WindowAlgs
    /\ \E a, b \in 1..Len(tecs) :
          /\ a < b /\ Len(tecs[a].pattern) > Len(tecs[b].pattern)
          /\ \E i \in 1..Len(cover) :
                /\ cover[i] = Len(tecs[a].pattern)
                /\ point_set[i] \in Range(tecs[a].pattern)
                /\ point_set[i] \in Range(tecs[b].pattern)
                /\ point_set[i] # tecs[a].pattern[Len(tecs[a].pattern)]
                /\ point_set[i] # tecs[b].pattern[Len(tecs[b].pattern)]

\* --------------------------------------------------------------------- SiaR
\* SiaR::compute_differences: the forward differences inside the window
SiarComputeDifferences(ps, window_r, overflow_checks) ==
    LET n == Len(ps)
        hi == WrappingSub(n, 1)
    IN  IF n < 1 /\ overflow_checks THEN Panic           \* n - 1 overflows
        ELSE IF hi > n THEN Panic                        \* point_set[i], i >= n
        ELSE LET pairs == LoopPairs(n, hi, window_r + 1)
                 diffs == [k \in 1..Len(pairs) |->
                             <<PSub(ps[pairs[k][2] + 1], ps[pairs[k][1] + 1]),
                               pairs[k][1]>>]
             IN  Ok(StableSort(diffs, {q \in Pairs(diffs) : DiffIndLess(q[1], q[2])}))

\* SiaR::partition: the patterns of the runs of equal differences
RECURSIVE SiarPartition(_, _, _, _)
SiarPartition(ps, diffs, i, mtp_patterns) ==
    IF i < Len(diffs)
    THEN TheOnly({SiarPartition(ps, diffs, j,
                      Append(mtp_patterns, GetPattern(ps, RunIndices(diffs, from, j)))) :
                  <<from, j>> \in {<<k, RunEnd(diffs, k, k)>> : k \in {i}}})
    ELSE mtp_patterns

\* The forward differences between the points of one pattern
IntraDiffsOf(pattern) ==
    LET p == Len(pattern)
        pairs == LoopPairs(p, p - 1, p)
    IN  [k \in 1..Len(pairs) |-> PSub(pattern[pairs[k][2] + 1], pattern[pairs[k][1] + 1])]

\* SiaR::compute_intra_pattern_diffs
ComputeIntraPatternDiffs(mtp_patterns) ==
    TheOnly({StableSort(intra_diffs, {q \in Pairs(intra_diffs) : PLess(q[1], q[2])}) :
             intra_diffs \in {Flatten([k \in 1..Len(mtp_patterns) |->
                                          IntraDiffsOf(mtp_patterns[k])])}})

\* SiaR::compute_diff_frequencies: (difference, frequency), most frequent first
ComputeDiffFrequencies(intra_diffs) ==
    LET firsts == SelectSeq([k \in 1..Len(intra_diffs) |-> k],
                            LAMBDA k : k = 1 \/ intra_diffs[k] # intra_diffs[k - 1])
        freqs == [k \in 1..Len(firsts) |->
                     <<intra_diffs[firsts[k]], Count(intra_diffs, intra_diffs[firsts[k]])>>]
    IN  StableSort(freqs, {q \in Pairs(freqs) : q[2][2] < q[1][2]})

SiarMtpForward(ps, translator) ==
    Mtp(translator, PsIntersect(ps, PsTranslate(ps, translator)))

\* The MTP that SiaR::compute_mtps emits for one difference
SiarMtp(ps, translator) ==
    Mtp(translator, PsIntersect(ps, PsTranslate(ps, PMul(translator, -1))))

InitSiar ==
    /\ InitRun({"SiaR"}) /\ InitIdleCos
    /\ siar_r \in 1..MaxR /\ max_ioi = 0
    /\ diff_index = <<>> /\ target_indices = <<>> /\ window_bounds = <<>>
    /\ cover = <<>> /\ split_triples = <<>>

\* let forward_diffs = self.compute_differences(point_set);
SiarDifferencesStep ==
    /\ alg = "SiaR" /\ status = "start"
    /\ \E overflow_checks \in BOOLEAN :
          \E res \in {SiarComputeDifferences(point_set, siar_r, overflow_checks)} :
              /\ status' = IF res.ok THEN "frequencies" ELSE "panic"
              /\ forward_diffs' = res.val
    /\ UNCHANGED <<alg, point_set, fi, intra_diff_freqs, diff_table, mtps, tecs,
                   psVars, winVars, cosVars, cmpVars, objVars>>

\* partition, compute_intra_pattern_diffs and compute_diff_frequencies
SiarFrequenciesStep ==
    /\ alg = "SiaR" /\ status = "frequencies"
    /\ intra_diff_freqs' = ComputeDiffFrequencies(ComputeIntraPatternDiffs(
                                SiarPartition(point_set, forward_diffs, 0, <<>>)))
    /\ fi' = 0
    /\ status' = "mtps"
    /\ UNCHANGED <<alg, point_set, forward_diffs, diff_table, mtps, tecs,
                   psVars, winVars, cosVars, cmpVars, objVars>>

\* One iteration of the loop of SiaR::compute_mtps
SiarMtpStep ==
    /\ alg = "SiaR" /\ status = "mtps"
    /\ fi < Len(intra_diff_freqs)
    /\ mtps' = Append(mtps, SiarMtp(point_set, intra_diff_freqs[fi + 1][1]))
    /\ fi' = fi + 1
    /\ UNCHANGED <<alg, point_set, status, forward_diffs, intra_diff_freqs,
                   diff_table, tecs, psVars, winVars, cosVars, cmpVars, objVars>>

SiarReturnStep ==
    /\ alg = "SiaR" /\ status = "mtps"
    /\ fi >= Len(intra_diff_freqs)
    /\ status' = "done"
    /\ UNCHANGED <<alg, point_set, forward_diffs, fi, intra_diff_freqs,
                   diff_table, mtps, tecs, psVars, winVars, cosVars, cmpVars, objVars>>

NextSiar == SiarDifferencesStep \/ SiarFrequenciesStep \/ SiarMtpStep \/ SiarReturnStep

SpecSiar == InitSiar /\ [][NextSiar]_vars

\* ----------------------------------------------- all discovery algorithms
InitDiscovery == InitSia \/ InitSiar \/ InitSiatec \/ InitSiatecC

NextDiscovery == NextSia \/ NextSiar \/ NextSiatec \/ NextSiatecC

SpecDiscovery == InitDiscovery /\ [][NextDiscovery]_vars

\* The main loop of SiatecC / SiatecCH is at its test, the test holds, and
\* an iteration changes neither pointer nor bound and yields no
\* difference: the loop runs forever
WindowLoopSpins ==
    /\ alg \in WindowAlgs /\ status = "loop"
    /\ target_indices[1] < Len(point_set)
    /\ ComputeForwardDiffsWithinWindow(point_set, max_ioi, target_indices, window_bounds)
           = [forward_diffs |-> <<>>, target_indices |-> target_indices,
              window_bounds |-> window_bounds]

\* C6: on a point set of size 0 or 1 each of Sia, SiaR, Siatec (with and
\* without duplicate removal), SiatecC and SiatecCH completes normally
\* with zero MTPs / TECs: it does not panic on an underflow or on an index
\* out of range, and its loop does not run forever.
C6_DegenerateInputsComplete ==
    Len(point_set) <= 1 =>
        /\ status # "panic"
        /\ ~WindowLoopSpins
        /\ (status = "done" => mtps = <<>> /\ tecs = <<>>)

\* ---------------------------------------------------------------------- Tec
\* Tec::expand: the pattern and its translated copies
ExpandTranslatedOnly(tec) ==
    [k \in 1..Len(tec.translators) |-> [i \in 1..Len(tec.pattern) |->
                                          PAdd(tec.pattern[i], tec.translators[k])]]
Expand(tec) ==
    <<tec.pattern>> \o [k \in 1..Len(tec.translators) |->
                           PatTranslate(tec.pattern, tec.translators[k])]

\* Tec::covered_set
CoveredSet(tec) == PointSetNew(Flatten(Expand(tec)))

\* Tec::conjugate
ConjugateAdjacent(tec) ==
    Tec(<<tec.pattern[1]>> \o [k \in 1..Len(tec.translators) |->
                                  PAdd(tec.pattern[1], tec.translators[k])],
        [k \in 1..(Len(tec.pattern) - 1) |-> PSub(tec.pattern[k + 1], tec.pattern[k])])
Conjugate(tec) ==
    LET first == tec.pattern[1]
    IN  Tec(<<first>> \o [k \in 1..Len(tec.translators) |-> PAdd(first, tec.translators[k])],
            [i \in 1..(Len(tec.pattern) - 1) |-> PSub(tec.pattern[i + 1], first)])

\* Vec::remove(i), i counted from 0
RemoveAt(s, i) == [k \in 1..(Len(s) - 1) |-> IF k <= i THEN s[k] ELSE s[k + 1]]

\* Tec::remove_redundant_translators: keeps the translators whose removal
\* alone changes the covered set
RemoveRedundantTranslators(tec) ==
    TheOnly({
        TheOnly({Tec(q[1].pattern, [k \in 1..Len(kept) |-> q[3][kept[k] + 1]]) :
                 kept \in {SelectSeq([k \in 1..Len(q[3]) |-> k - 1],
                               LAMBDA i : CoveredSet(Tec(q[1].pattern, RemoveAt(q[3], i)))
                                              # q[2])}}) :
        q \in {<<t, CoveredSet(t),
                 Dedup(StableSort(t.translators,
                           {w \in Pairs(t.translators) : PLess(w[1], w[2])}))>> :
               t \in {tec}}})

\* ---------------------------------------------------------------- heuristic
\* f64 values of the heuristic.  F64Min and F64Max stand for f64::MIN and
\* f64::MAX: they lie beyond every coordinate and every sum of the model.
\* A product below F64Min is -inf, written NegInf.
F64Max == 2 ^ 20
F64Min == -F64Max
NegInf == F64Min - 1

\* f64 subtraction upper - lower: f64::MIN absorbs a coordinate
F64Sub(upper, lower) == IF upper = F64Min THEN F64Min ELSE upper - lower

\* f64 multiplication of a width by a height
F64Mul(width, height) ==
    IF width * height < F64Min THEN NegInf ELSE width * height

\* A quotient num / den of two counts as f64: den = 0 gives +inf for
\* num > 0 and NaN for num = 0.  The pair <<num, den>> stands for it.
IsNaN(q) == q[2] = 0 /\ q[1] = 0
IsInf(q) == q[2] = 0 /\ q[1] > 0
QuotientGreater(a, b) ==
    IF IsNaN(a) \/ IsNaN(b) THEN FALSE
    ELSE IF IsInf(a) THEN ~IsInf(b)
    ELSE IF IsInf(b) THEN FALSE
    ELSE a[1] * b[2] > b[1] * a[2]

\* if point_y < bb.upper_y { bb.upper_y = point_y; }
UpperY(point_y, upper_y) == IF point_y < upper_y THEN point_y ELSE upper_y

\* heuristic::bounding_box, the loop over the pattern
RECURSIVE BoundingBoxLoop(_, _, _)
BoundingBoxLoop(pattern, k, bb) ==
    IF k > Len(pattern) THEN bb
    ELSE TheOnly({BoundingBoxLoop(pattern, k + 1, next) :
                  next \in {[lower_x |-> IF pattern[k][1] < bb.lower_x
                                         THEN pattern[k][1] ELSE bb.lower_x,
                             upper_x |-> IF pattern[k][1] > bb.upper_x
                                         THEN pattern[k][1] ELSE bb.upper_x,
                             lower_y |-> IF pattern[k][2] < bb.lower_y
                                         THEN pattern[k][2] ELSE bb.lower_y,
                             upper_y |-> UpperY(pattern[k][2], bb.upper_y)]}})

BoundingBox(pattern) ==
    BoundingBoxLoop(pattern, 1, [lower_x |-> F64Max, lower_y |-> F64Max,
                                 upper_x |-> F64Min, upper_y |-> F64Min])

\* BoundingBox::contains
Contains(bb, point) ==
    ~(point[1] < bb.lower_x) /\ ~(point[1] > bb.upper_x)
        /\ ~(point[2] < bb.lower_y) /\ ~(point[2] > bb.upper_y)

\* heuristic::compr_ratio_with_cov
ComprRatioWithCov(tec, cov) == <<Len(cov), Len(tec.pattern) + Len(tec.translators)>>

\* pat_size / contained for one occurrence
OccurrenceCompactness(tec, occurrence, ps) ==
    <<Len(tec.pattern),
      Cardinality({k \in 1..Len(ps) : Contains(BoundingBox(occurrence), ps[k])})>>

\* heuristic::bb_compactness, the loop over the expansion
RECURSIVE BbCompactnessLoop(_, _, _, _, _)
BbCompactnessLoop(tec, expanded, k, ps, best_compactness) ==
    IF k > Len(expanded) THEN best_compactness
    ELSE TheOnly({BbCompactnessLoop(tec, expanded, k + 1, ps,
                      IF QuotientGreater(compactness, best_compactness)
                      THEN compactness ELSE best_compactness) :
                  compactness \in {OccurrenceCompactness(tec, expanded[k], ps)}})

BbCompactness(tec, ps) ==
    TheOnly({BbCompactnessLoop(tec, expanded, 1, ps, <<0, 1>>) :
             expanded \in {Expand(tec)}})

\* heuristic::stats_of
StatsOf(tec, ps) ==
    TheOnly({[tec |-> q[1],
              comp_ratio |-> ComprRatioWithCov(q[1], q[2]),
              compactness |-> q[4],
              covered_set |-> q[2],
              pattern_width |-> q[3].upper_x - q[3].lower_x,
              pattern_area |-> F64Mul(q[3].upper_x - q[3].lower_x,
                                      F64Sub(q[3].upper_y, q[3].lower_y))] :
             q \in {<<t, CoveredSet(t), BoundingBox(t.pattern), BbCompactness(t, ps)>> :
                    t \in {tec}}})

\* TecStats::is_better_than
IsBetterThan(self, other) ==
    \/ QuotientGreater(self.comp_ratio, other.comp_ratio)
    \/ QuotientGreater(self.compactness, other.compactness)
    \/ Len(self.covered_set) > Len(other.covered_set)
    \/ Len(self.tec.pattern) > Len(other.tec.pattern)
    \/ self.pattern_width < other.pattern_width
    \/ self.pattern_area < other.pattern_area

\* ----------------------------------------------------------------- Cosiatec
CosMaxX == 3
CosMaxN == 4
\* Greatest size of the point sets Cosiatec is run on with SiatecCH
CosChMaxN == 3
CosPitches == {0, 1}
CosAlgs == {"Siatec", "SiatecRD", "SiatecC", "SiatecCH"}

CosGrid == (0..CosMaxX) \X CosPitches
CosPointSets ==
    {SetToSortedSeq(S) : S \in {T \in SUBSET CosGrid : Cardinality(T) <= CosMaxN}}

\* get_best_tec: the initial value of best
InitialBest ==
    [tec |-> Tec(<<>>, <<>>),
     comp_ratio |-> <<-1, 1>>,
     compactness |-> <<0, 1>>,
     covered_set |-> <<>>,
     pattern_width |-> 0,
     pattern_area |-> 0]

\* if candidate.is_better_than(&best) { best = candidate; }
BetterOf(candidate, best) == IF IsBetterThan(candidate, best) THEN candidate ELSE best

\* get_best_tec: the closure replace_best
ReplaceBest(tec, ps, best) ==
    TheOnly({BetterOf(conjugate, after) :
             <<conjugate, after>> \in
                 {<<StatsOf(RemoveRedundantTranslators(Conjugate(tec)), ps),
                    BetterOf(candidate, best)>> :
                  candidate \in {StatsOf(RemoveRedundantTranslators(tec), ps)}}})

\* get_best_tec: replace_best applied to the TECs in the order of their output
RECURSIVE GetBestLoop(_, _, _, _)
GetBestLoop(output, k, ps, best) ==
    IF k > Len(output) THEN best
    ELSE TheOnly({GetBestLoop(output, k + 1, ps, next) :
                  next \in {ReplaceBest(output[k], ps, best)}})

GetBestTec(output, ps) == GetBestLoop(output, 1, ps, InitialBest)

\* while !point_set_clone.is_empty() && iterations < point_set.len()
CosLoopCondition == residual # <<>> /\ iterations < Len(cos_point_set)

InitCosiatec ==
    /\ InitIdlePs
    /\ alg \in CosAlgs
    /\ cos_point_set \in CosPointSets
    /\ (alg = "SiatecCH" => Len(cos_point_set) <= CosChMaxN)
    /\ residual = cos_point_set
    /\ iterations = 0
    /\ emitted = <<>>
    /\ cos_status = "loop"
    /\ InitIdleCmp /\ InitIdleObj
    /\ point_set = <<>>
    /\ status = "idle"
    /\ forward_diffs = <<>> /\ fi = 0 /\ intra_diff_freqs = <<>>
    /\ diff_table = <<>> /\ mtps = <<>> /\ tecs = <<>>
    /\ max_ioi \in (IF alg \in WindowAlgs THEN 1..MaxIoi ELSE {0})
    /\ siar_r = 0
    /\ diff_index = <<>> /\ target_indices = <<>> /\ window_bounds = <<>>
    /\ cover = <<>> /\ split_triples = <<>>

\* get_best_tec: the call of the TEC algorithm on the residual point set
CosCallStep ==
    /\ cos_status = "loop"
    /\ CosLoopCondition
    /\ cos_status' = "best"
    /\ point_set' = residual
    /\ status' = "start"
    /\ forward_diffs' = <<>> /\ fi' = 0 /\ diff_table' = <<>>
    /\ mtps' = <<>> /\ tecs' = <<>>
    /\ diff_index' = <<>> /\ target_indices' = <<>> /\ window_bounds' = <<>>
    /\ cover' = <<>> /\ split_triples' = <<>>
    /\ UNCHANGED <<psVars, alg, intra_diff_freqs, max_ioi, siar_r,
                   cos_point_set, residual, iterations, emitted, cmpVars, objVars>>

\* The rest of the loop body once the TEC algorithm has returned
CosSelectStep ==
    /\ cos_status = "best"
    /\ status = "done"
    /\ \E best \in {GetBestTec(tecs, residual)} :
          /\ residual' = PsDifference(residual, best.covered_set)
          /\ emitted' = Append(emitted, best.tec)
    /\ iterations' = iterations + 1
    /\ cos_status' = "loop"
    /\ status' = "idle"
    /\ UNCHANGED <<psVars, alg, point_set, forward_diffs, fi, intra_diff_freqs,
                   diff_table, mtps, tecs, winVars, cos_point_set, cmpVars, objVars>>

\* A panic of the TEC algorithm unwinds through Cosiatec
CosPanicStep ==
    /\ cos_status = "best"
    /\ status = "panic"
    /\ cos_status' = "panic"
    /\ UNCHANGED <<psVars, runVars, winVars, cos_point_set, residual, iterations, emitted,
                   cmpVars, objVars>>

CosReturnStep ==
    /\ cos_status = "loop"
    /\ ~CosLoopCondition
    /\ cos_status' = "done"
    /\ UNCHANGED <<psVars, runVars, winVars, cos_point_set, residual, iterations, emitted,
                   cmpVars, objVars>>

NextCosiatec ==
    \/ CosCallStep
    \/ CosSelectStep
    \/ CosPanicStep
    \/ CosReturnStep
    \/ NextSiatec
    \/ NextWindowTecs

SpecCosiatec == InitCosiatec /\ [][NextCosiatec]_vars

\* Every step of the sequential program is taken eventually
FairSpecCosiatec == SpecCosiatec /\ WF_vars(NextCosiatec)

\* The points covered by the TECs emitted so far
EmittedCover ==
    PointSetNew(Flatten([k \in 1..Len(emitted) |-> CoveredSet(emitted[k])]))

\* C9: for every non-empty point set and every TEC algorithm of the Siatec
\* family, the TECs that Cosiatec has emitted when it returns cover the
\* whole point set.
C9_CosiatecCoversPointSet ==
    (cos_status = "done" /\ cos_point_set # <<>>) => EmittedCover = cos_point_set

\* C10: Cosiatec always terminates, and it has then emitted one TEC per
\* iteration and at most |D| TECs: the loop has stopped with an empty
\* residual set or after exactly |D| iterations.  A run that a panic ends
\* has stopped as well and is not held against the property.
C10_CosiatecTerminates ==
    (cos_status = "loop" /\ iterations = 0) ~>
        \/ cos_status = "panic"
        \/ /\ cos_status = "done"
           /\ Len(emitted) = iterations
           /\ Len(emitted) <= Len(cos_point_set)
           /\ (residual = <<>> \/ iterations = Len(cos_point_set))

\* ----------------------------------------------------------- SiatecCompress
\* PointSet::union: two-pointer merge of two sorted sequences, a point of
\* both taken once (the function is called at siatec_compress.rs:78; its
\* body is not part of the source tree at hand)
RECURSIVE UnionLoop(_, _, _, _, _)
UnionLoop(self, other, i, j, merged) ==
    IF i < Len(self) /\ j < Len(other)
    THEN IF self[i + 1] = other[j + 1]
         THEN UnionLoop(self, other, i + 1, j + 1, Append(merged, self[i + 1]))
         ELSE IF PLess(other[j + 1], self[i + 1])
              THEN UnionLoop(self, other, i, j + 1, Append(merged, other[j + 1]))
              ELSE UnionLoop(self, other, i + 1, j, Append(merged, self[i + 1]))
    ELSE merged \o SubSeq(self, i + 1, Len(self)) \o SubSeq(other, j + 1, Len(other))

PsUnion(self, other) == UnionLoop(self, other, 0, 0, <<>>)

\* The comparator of tec_stats.sort_by: Less exactly when a.is_better_than(b),
\* Greater otherwise
IsLess(a, b) == IsBetterThan(a, b)

\* The number of elements at the end of sorted that tail goes in front of
RECURSIVE ShiftCount(_, _, _)
ShiftCount(sorted, tail, k) ==
    IF k < Len(sorted) /\ IsLess(tail, sorted[Len(sorted) - k])
    THEN ShiftCount(sorted, tail, k + 1) ELSE k

\* The number of elements at the start of sorted that go in front of head
RECURSIVE HeadCount(_, _, _)
HeadCount(sorted, head, k) ==
    IF k < Len(sorted) /\ IsLess(sorted[k + 1], head)
    THEN HeadCount(sorted, head, k + 1) ELSE k

InsertAfter(sorted, k, x) ==
    SubSeq(sorted, 1, k) \o <<x>> \o SubSeq(sorted, k + 1, Len(sorted))

\* slice::sort_by on a slice of at most SmallSortMax elements is an
\* insertion sort.  The standard library has had two of them: one inserts
\* v[i] into the sorted v[..i] from the right (i ascending), the other
\* inserts v[i] into the sorted v[i+1..] from the left (i descending).  With
\* a comparator that is not a total order the two differ.  On a longer
\* slice sort_by merges runs, and with such a comparator it leaves an order
\* of its own or panics: the runs of SiatecCompress stay within
\* SmallSortMax candidates.
SmallSortMax == 20
RECURSIVE InsertionSortShiftLeft(_, _, _)
InsertionSortShiftLeft(v, i, sorted) ==
    IF i > Len(v) THEN sorted
    ELSE TheOnly({InsertionSortShiftLeft(v, i + 1, next) :
                  next \in {InsertAfter(sorted,
                                Len(sorted) - ShiftCount(sorted, v[i], 0), v[i])}})

RECURSIVE InsertionSortInsertHead(_, _, _)
InsertionSortInsertHead(v, i, sorted) ==
    IF i < 1 THEN sorted
    ELSE TheOnly({InsertionSortInsertHead(v, i - 1, next) :
                  next \in {InsertAfter(sorted, HeadCount(sorted, v[i], 0), v[i])}})

\* tec_stats.sort_by on at most SmallSortMax elements
SortBy(v, insert_head) ==
    IF insert_head THEN InsertionSortInsertHead(v, Len(v), <<>>)
    ELSE InsertionSortShiftLeft(v, 1, <<>>)

\* SiatecCompress::compute_tecs up to the sort: the TECs, then their
\* conjugates, each pruned of redundant translators and measured
CandidateStats(output, ps) ==
    TheOnly({[k \in 1..Len(all) |-> StatsOf(RemoveRedundantTranslators(all[k]), ps)] :
             all \in {output \o [k \in 1..Len(output) |-> Conjugate(output[k])]}})

\* compute_encoding: tec_repr_size, and the test new_points.len() > tec_repr_size
TecReprSize(tec) == Len(tec.pattern) + Len(tec.translators)
AcceptsAtSize(new_points, tec) == Len(new_points) >= TecReprSize(tec)
Accepts(new_points, tec) == Len(new_points) > TecReprSize(tec)

\* SiatecCompress::compute_encoding, the residual TEC
ResidualTecBare(residual_points) == Tec(<<residual_points[1]>>, <<>>)
ResidualTec(residual_points) ==
    Tec(<<residual_points[1]>>,
        [i \in 1..(Len(residual_points) - 1) |->
            PSub(residual_points[i + 1], residual_points[1])])

CmpMaxX == 3
CmpMaxN == 5
CmpPitches == {0, 1}
CmpGrid == (0..CmpMaxX) \X CmpPitches

\* A pattern and its occurrence at the vector v
WithOccurrence(pattern, v) == pattern \cup {PAddExact(p, v) : p \in pattern}

\* Inputs on which several TECs are accepted in turn: two patterns of three
\* points that share the point LinkPoint, each with one more occurrence
LinkPoint == <<3, 3>>
LinkedPointSets ==
    {SetToSortedSeq(WithOccurrence({LinkPoint, <<5, 3>>, <<3, 4>>}, <<7, 0>>)
                        \cup WithOccurrence({LinkPoint, <<1, 2>>, e}, u)) :
        e \in {<<0, 3>>, <<2, 5>>}, u \in {<<3, 6>>, <<1, 7>>}}

CmpPointSets ==
    {SetToSortedSeq(S) : S \in {T \in SUBSET CmpGrid : Cardinality(T) <= CmpMaxN}}
        \cup LinkedPointSets

\* Siatec without duplicate removal hands n * (n - 1) / 2 TECs to
\* SiatecCompress, which ranks them with their conjugates: its inputs stay
\* within CmpMaxN points, that is within SmallSortMax candidates
WithinSortBound(a, ps) == a = "Siatec" => Len(ps) <= CmpMaxN

InitSiatecCompress ==
    /\ InitIdlePs
    /\ alg \in CosAlgs
    /\ point_set \in CmpPointSets
    /\ WithinHashBound(alg, point_set)
    /\ WithinSortBound(alg, point_set)
    /\ status = "start"
    /\ forward_diffs = <<>> /\ fi = 0 /\ intra_diff_freqs = <<>>
    /\ diff_table = <<>> /\ mtps = <<>> /\ tecs = <<>>
    /\ max_ioi \in (IF alg \in WindowAlgs THEN 1..MaxIoi ELSE {0})
    /\ siar_r = 0
    /\ diff_index = <<>> /\ target_indices = <<>> /\ window_bounds = <<>>
    /\ cover = <<>> /\ split_triples = <<>>
    /\ cos_point_set = <<>> /\ cos_status = "idle"
    /\ residual = <<>> /\ iterations = 0 /\ emitted = <<>>
    /\ cmp_status = "inner" /\ tec_stats = <<>> /\ ts_i = 0
    /\ total_cover = <<>> /\ tec_cover = <<>>
    /\ InitIdleObj

\* compute_tecs: the TEC algorithm has returned; conjugates, stats, sort_by,
\* and the first lines of compute_encoding
CmpRankStep ==
    /\ cmp_status = "inner" /\ status = "done"
    /\ \E candidates \in {CandidateStats(tecs, point_set)} :
          /\ Len(candidates) <= SmallSortMax
          /\ \E insert_head \in BOOLEAN :
                tec_stats' = SortBy(candidates, insert_head)
    /\ ts_i' = 0
    /\ total_cover' = PointSetNew(<<>>)
    /\ tec_cover' = <<>>
    /\ cmp_status' = "walk"
    /\ UNCHANGED <<psVars, runVars, winVars, cosVars, objVars>>

\* A panic of the TEC algorithm unwinds through SiatecCompress
CmpPanicStep ==
    /\ cmp_status = "inner" /\ status = "panic"
    /\ cmp_status' = "panic"
    /\ UNCHANGED <<psVars, runVars, winVars, cosVars, objVars,
                   tec_stats, ts_i, total_cover, tec_cover>>

\* compute_encoding: one iteration of for tec_stat in tec_stats.iter()
CmpWalkStep ==
    /\ cmp_status = "walk"
    /\ ts_i < Len(tec_stats)
    /\ \E tec_stat \in {tec_stats[ts_i + 1]} :
       \E new_points \in {PsDifference(tec_stat.covered_set, total_cover)} :
          IF Accepts(new_points, tec_stat.tec)
          THEN /\ tec_cover' = Append(tec_cover, tec_stat.tec)
               /\ total_cover' = PsUnion(total_cover, tec_stat.covered_set)
               /\ cmp_status' = IF Len(total_cover') = Len(point_set)
                                 THEN "residual" ELSE "walk"
          ELSE UNCHANGED <<tec_cover, total_cover, cmp_status>>
    /\ ts_i' = ts_i + 1
    /\ UNCHANGED <<psVars, runVars, winVars, cosVars, objVars, tec_stats>>

\* compute_encoding: tec_stats is exhausted
CmpWalkEndStep ==
    /\ cmp_status = "walk"
    /\ ts_i >= Len(tec_stats)
    /\ cmp_status' = "residual"
    /\ UNCHANGED <<psVars, runVars, winVars, cosVars, objVars,
                   tec_stats, ts_i, total_cover, tec_cover>>

\* compute_encoding: the residual points as one TEC, then the return
CmpResidualStep ==
    /\ cmp_status = "residual"
    /\ \E residual_points \in {PsDifference(point_set, total_cover)} :
          tec_cover' = IF Len(residual_points) > 0
                       THEN Append(tec_cover, ResidualTec(residual_points))
                       ELSE tec_cover
    /\ cmp_status' = "done"
    /\ UNCHANGED <<psVars, runVars, winVars, cosVars, objVars,
                   tec_stats, ts_i, total_cover>>

NextSiatecCompress ==
    \/ CmpRankStep
    \/ CmpPanicStep
    \/ CmpWalkStep
    \/ CmpWalkEndStep
    \/ CmpResidualStep
    \/ NextSiatec
    \/ NextWindowTecs

SpecSiatecCompress == InitSiatecCompress /\ [][NextSiatecCompress]_vars

\* The points covered by a list of TECs
TecsCover(list) == PointSetNew(Flatten([k \in 1..Len(list) |-> CoveredSet(list[k])]))

\* The TECs of the ranked list
RankedTecs == {tec_stats[k].tec : k \in 1..Len(tec_stats)}

\* C11: when SiatecCompress returns, the covered sets of the returned TECs
\* together are the point set.  The points that the accepted TECs leave
\* uncovered are covered by a last TEC with a one-point pattern, and that
\* TEC is there only when such points exist.
C11_CompressCoversPointSet ==
    cmp_status = "done" =>
        /\ TecsCover(tec_cover) = point_set
        /\ LET remainder == PsDifference(point_set, total_cover)
           IN  IF remainder = <<>>
               THEN \A k \in 1..Len(tec_cover) : tec_cover[k] \in RankedTecs
               ELSE /\ tec_cover # <<>>
                    /\ Len(tec_cover[Len(tec_cover)].pattern) = 1
                    /\ CoveredSet(tec_cover[Len(tec_cover)]) = remainder
                    /\ \A k \in 1..(Len(tec_cover) - 1) : tec_cover[k] \in RankedTecs
                    /\ TecsCover(SubSeq(tec_cover, 1, Len(tec_cover) - 1)) = total_cover

\* An accepted TEC is followed by the residual TEC of the one point it leaves
C11_Witness ==
    /\ cmp_status = "done"
    /\ Len(tec_cover) = 2
    /\ tec_cover[1] \in RankedTecs
    /\ Len(PsDifference(point_set, total_cover)) = 1
    /\ tec_cover[2] = Tec(PsDifference(point_set, total_cover), <<>>)

\* One iteration of the walk over the ranked list
WalkStepGains ==
    cmp_status = "walk" /\ ts_i' = ts_i + 1 =>
        /\ tec_cover' # tec_cover =>
              /\ tec_cover' = Append(tec_cover, tec_stats[ts_i + 1].tec)
              /\ Cardinality(Range(tec_stats[ts_i + 1].covered_set) \ Range(total_cover))
                     > TecReprSize(tec_stats[ts_i + 1].tec)
        /\ Range(total_cover) \subseteq Range(total_cover')
        /\ tec_cover' = tec_cover => total_cover' = total_cover
        /\ total_cover' = point_set => cmp_status' # "walk"

\* C12: a TEC that SiatecCompress accepts from the ranked list covers, when
\* it is accepted, more points outside the accumulated cover than its
\* pattern length plus its translator count; the accumulated cover only
\* grows; the walk ends with the step that makes the cover the point set.
C12_AcceptedTecsGain == [][WalkStepGains]_vars

\* A second TEC has been accepted against the cover of the first: it
\* shares a point with that cover, its other points lie on both sides of a
\* point of that cover, and the accumulated cover is the two together
C12_Witness ==
    /\ cmp_status \in {"walk", "residual"}
    /\ Len(tec_cover) >= 2
    /\ LET last == Range(CoveredSet(tec_cover[Len(tec_cover)]))
           before == Range(TecsCover(SubSeq(tec_cover, 1, Len(tec_cover) - 1)))
       IN  /\ last \cap before # {}
           /\ Range(total_cover) = last \cup before
           /\ \E q \in before :
                 /\ \E p \in last \ before : PLess(p, q)
                 /\ \E p \in last \ before : PLess(q, p)

HasZeroTranslator(tec) == \E k \in 1..Len(tec.translators) : tec.translators[k] = ZeroPoint

\* C13: no Tec that Siatec, SiatecC or SiatecCH hands to on_output has the
\* zero vector among its translators, and neither has the residual TEC
\* that SiatecCompress builds.
C13_NoZeroTranslator ==
    /\ \A k \in 1..Len(tecs) : ~HasZeroTranslator(tecs[k])
    /\ (cmp_status = "done" /\ PsDifference(point_set, total_cover) # <<>>) =>
           ~HasZeroTranslator(tec_cover[Len(tec_cover)])

\* The TEC algorithm has emitted a TEC with translators and SiatecCompress
\* has returned a residual TEC with translators
C13_Witness ==
    /\ cmp_status = "done"
    /\ \E k \in 1..Len(tecs) :
          Len(tecs[k].pattern) >= 2 /\ Len(tecs[k].translators) >= 1
    /\ Len(PsDifference(point_set, total_cover)) >= 3
    /\ Len(tec_cover[Len(tec_cover)].translators) >= 2

\* The MTP triples of the run before any removal, in forward-difference order
AllMtpTriples == SiatecPartition(point_set, forward_diffs, 0, <<>>)

\* The index in all of the first triple with the given vectorized form
FirstOfShape(all, shape) ==
    CHOOSE k \in 1..Len(all) :
        /\ all[k].vectorized = shape
        /\ \A j \in 1..(k - 1) : all[j].vectorized # shape

\* C14: with remove_duplicates, Siatec emits one Tec per distinct vectorized
\* form of the MTPs: no two emitted TECs have patterns with equal vectorized
\* forms, every vectorized form among the MTPs has its Tec, and the pattern
\* of that Tec is the first MTP of that form in forward-difference order.
C14_OneTecPerShape ==
    alg = "SiatecRD" =>
        /\ \A a, b \in 1..Len(tecs) :
              a # b => Vectorize(tecs[a].pattern) # Vectorize(tecs[b].pattern)
        /\ status = "done" =>
              LET all == AllMtpTriples
                  shapes == {all[k].vectorized : k \in 1..Len(all)}
              IN  /\ Len(tecs) = Cardinality(shapes)
                  /\ \A shape \in shapes :
                        \E k \in 1..Len(tecs) :
                            tecs[k].pattern = all[FirstOfShape(all, shape)].pattern

\* Two MTPs of two or more points with the same vectorized form, apart in
\* forward-difference order, and one Tec for them
C14_Witness ==
    /\ alg = "SiatecRD" /\ status = "done"
    /\ LET all == AllMtpTriples
       IN  \E a, b \in 1..Len(all) :
              /\ a + 1 < b
              /\ Len(all[a].pattern) >= 2
              /\ all[a].vectorized = all[b].vectorized
              /\ all[a + 1].vectorized # all[a].vectorized
              /\ all[a].pattern # all[b].pattern

\* ------------------------------------------- Tec and Pattern operations (SpecTec)
ObjMaxLen == 3
ObjMaxTranslators == 2

\* Pattern points, and the vectors of translators and translations: small
\* ones and one at the magnitude where a sum is rounded
ObjPoints == {<<0, 0>>, <<1, 0>>, <<2, 0>>, <<1, 1>>}
ObjVectors == {<<0, 0>>, <<1, 0>>, <<-1, 1>>, <<F64Exact, 0>>}

ObjPatterns == SeqsUpTo(ObjPoints, ObjMaxLen)
ObjTranslatorLists == SeqsUpTo(ObjVectors \ {ZeroPoint}, ObjMaxTranslators)

InitTec ==
    /\ InitIdlePs
    /\ InitIdleRun /\ InitIdleWin
    /\ cos_point_set = <<>> /\ cos_status = "idle"
    /\ residual = <<>> /\ iterations = 0 /\ emitted = <<>>
    /\ InitIdleCmp
    /\ obj_tec \in {Tec(pattern, translators) :
                       pattern \in ObjPatterns, translators \in ObjTranslatorLists}
    /\ obj_vec \in ObjVectors
    /\ obj_op = "new"
    /\ obj_result = <<>>

ObjUnchanged == UNCHANGED <<psVars, runVars, winVars, cosVars, cmpVars, obj_tec, obj_vec>>

\* obj_tec.expand()
TecExpandStep ==
    /\ obj_op' = "expand"
    /\ obj_result' = Expand(obj_tec)
    /\ ObjUnchanged

\* obj_tec.covered_set()
TecCoveredSetStep ==
    /\ obj_op' = "covered_set"
    /\ obj_result' = CoveredSet(obj_tec)
    /\ ObjUnchanged

\* obj_tec.conjugate(): self.pattern[0] panics on an empty pattern
TecConjugateStep ==
    /\ obj_op' = "conjugate"
    /\ obj_result' = IF Len(obj_tec.pattern) = 0 THEN Panic ELSE Ok(Conjugate(obj_tec))
    /\ ObjUnchanged

\* obj_tec.pattern.translate(&obj_vec)
PatTranslateStep ==
    /\ obj_op' = "translate"
    /\ obj_result' = PatTranslate(obj_tec.pattern, obj_vec)
    /\ ObjUnchanged

\* obj_tec.pattern.vectorize(): length - 1 underflows on an empty pattern,
\* which panics at once or in Vec::with_capacity
PatVectorizeStep ==
    /\ obj_op' = "vectorize"
    /\ obj_result' = IF Len(obj_tec.pattern) = 0 THEN Panic
                     ELSE Ok(Vectorize(obj_tec.pattern))
    /\ ObjUnchanged

NextTec ==
    \/ TecExpandStep
    \/ TecCoveredSetStep
    \/ TecConjugateStep
    \/ PatTranslateStep
    \/ PatVectorizeStep

SpecTec == InitTec /\ [][NextTec]_vars

PSubExact(a, b) == <<a[1] - b[1], a[2] - b[2]>>

\* every sum of a pattern point and the vector is computed without rounding
ExactTranslation(pattern, v) ==
    \A k \in 1..Len(pattern) : PAdd(pattern[k], v) = PAddExact(pattern[k], v)

\* every sum of a pattern point and a translator, and every difference of a
\* pattern point and the first point, is computed without rounding
ExactOccurrences(tec) ==
    /\ \A k \in 1..Len(tec.translators) : ExactTranslation(tec.pattern, tec.translators[k])
    /\ \A k \in 1..Len(tec.pattern) :
           PSub(tec.pattern[k], tec.pattern[1]) = PSubExact(tec.pattern[k], tec.pattern[1])

ConjugateShape(tec, conj) ==
    /\ conj.pattern = <<tec.pattern[1]>> \o
           [k \in 1..Len(tec.translators) |-> PAdd(tec.pattern[1], tec.translators[k])]
    /\ conj.translators =
           [k \in 1..(Len(tec.pattern) - 1) |-> PSub(tec.pattern[k + 1], tec.pattern[1])]

\* C15 as stated: the conjugate of every Tec with a non-empty pattern covers
\* the same points as the Tec, its pattern being the first point followed by
\* the first point plus each translator and its translators the other
\* pattern points minus the first.
C15_ConjugateSameCover ==
    (obj_op = "conjugate" /\ Len(obj_tec.pattern) > 0) =>
        /\ obj_result.ok
        /\ ConjugateShape(obj_tec, obj_result.val)
        /\ CoveredSet(obj_result.val) = CoveredSet(obj_tec)

\* C15 amended: the conjugate has the stated pattern and translators for
\* every Tec with a non-empty pattern, and covers the same points as the Tec
\* whenever the sums of pattern points and translators and the differences
\* of the pattern points and the first point are computed without rounding.
C15_ConjugateSameCoverWhenExact ==
    (obj_op = "conjugate" /\ Len(obj_tec.pattern) > 0) =>
        /\ obj_result.ok
        /\ ConjugateShape(obj_tec, obj_result.val)
        /\ ExactOccurrences(obj_tec) =>
               CoveredSet(obj_result.val) = CoveredSet(obj_tec)

C15_Witness ==
    /\ obj_op = "conjugate"
    /\ Len(obj_tec.pattern) = 3
    /\ Len(obj_tec.translators) = 2
    /\ ExactOccurrences(obj_tec)
    /\ obj_result.ok
    /\ obj_result.val.pattern # obj_tec.pattern
    /\ Len(CoveredSet(obj_result.val)) > 5

\* C16 as stated: for every non-empty pattern P and vector v, P.translate(v)
\* has the length of P and the same vectorized representation as P.
C16_TranslateKeepsVectorized ==
    (obj_op = "translate" /\ Len(obj_tec.pattern) > 0) =>
        /\ Len(obj_result) = Len(obj_tec.pattern)
        /\ Vectorize(obj_result) = Vectorize(obj_tec.pattern)

\* C16 amended: for every pattern P and vector v, P.translate(v) holds the
\* sums P[k] + v in the order of P, and for a non-empty P its vectorized
\* representation equals that of P whenever every sum P[k] + v is computed
\* without rounding.
C16_TranslateKeepsVectorizedWhenExact ==
    obj_op = "translate" =>
        /\ Len(obj_result) = Len(obj_tec.pattern)
        /\ \A k \in 1..Len(obj_result) : obj_result[k] = PAdd(obj_tec.pattern[k], obj_vec)
        /\ (Len(obj_tec.pattern) > 0 /\ ExactTranslation(obj_tec.pattern, obj_vec)) =>
               Vectorize(obj_result) = Vectorize(obj_tec.pattern)

C16_Witness ==
    /\ obj_op = "translate"
    /\ Len(obj_tec.pattern) = 3
    /\ ~IsZero(obj_vec)
    /\ ExactTranslation(obj_tec.pattern, obj_vec)
    /\ obj_result # obj_tec.pattern
    /\ Vectorize(obj_result) = <<<<1, 0>>, <<-1, 1>>>>

\* C19: expand() returns one pattern more than the Tec has translators; the
\* first is the Tec's own pattern, and the one after the k-th translator is
\* the pattern translated by that translator, point by point in the
\* pattern's order; translating a pattern by the zero vector gives an equal
\* pattern.
C19_ExpandOccurrences ==
    /\ obj_op = "expand" =>
           /\ Len(obj_result) = Len(obj_tec.translators) + 1
           /\ obj_result[1] = obj_tec.pattern
           /\ \A k \in 1..Len(obj_tec.translators) :
                  /\ Len(obj_result[k + 1]) = Len(obj_tec.pattern)
                  /\ \A i \in 1..Len(obj_tec.pattern) :
                         obj_result[k + 1][i] = PAdd(obj_tec.pattern[i], obj_tec.translators[k])
    /\ (obj_op = "translate" /\ IsZero(obj_vec)) => obj_result = obj_tec.pattern

C19_Witness ==
    /\ obj_op = "expand"
    /\ Len(obj_tec.pattern) = 2
    /\ Len(obj_tec.translators) = 2
    /\ Len(obj_result) = 3
    /\ obj_result[3] # obj_result[2]
    /\ obj_result[2] # obj_tec.pattern

\* The candidate pattern of SiaR for the difference d: the points that have
\* a point at distance d among the window_r points after them
WindowedCandidate(ps, window_r, d) ==
    {ps[i] : i \in {k \in 1..Len(ps) :
                      \E j \in (k + 1)..(k + window_r) :
                          j <= Len(ps) /\ PSub(ps[j], ps[k]) = d}}

\* The differences between two points of one candidate pattern
IntraCandidateDiffs(ps, window_r) ==
    UNION {{PSub(b, a) : <<a, b>> \in {q \in WindowedCandidate(ps, window_r, d) \X
                                              WindowedCandidate(ps, window_r, d) :
                                         PLess(q[1], q[2])}} :
           d \in {PSub(ps[j], ps[i]) : i \in 1..Len(ps), j \in 1..Len(ps)}}

\* C20: every MTP that SiaR emits with translator v has as its pattern
\* exactly the points p of the point set with p + v in the point set, in
\* ascending order, so it is an MTP of Sia too; no translator is emitted
\* twice; and every emitted translator is the difference of two points of
\* one windowed candidate pattern.
C20_SiarMtpsExact ==
    alg = "SiaR" =>
        /\ \A k \in 1..Len(mtps) :
               /\ mtps[k].pattern = MtpOf(point_set, mtps[k].translator)
               /\ StrictlyAscending(mtps[k].pattern)
               /\ Len(mtps[k].pattern) > 0
               /\ PLess(ZeroPoint, mtps[k].translator)
               /\ mtps[k].translator \in IntraCandidateDiffs(point_set, siar_r)
        /\ \A j, k \in 1..Len(mtps) :
               mtps[j].translator = mtps[k].translator => j = k

C20_Witness ==
    /\ alg = "SiaR" /\ status = "done"
    /\ Len(mtps) >= 2
    /\ \E k \in 1..Len(mtps) : Len(mtps[k].pattern) >= 2
    /\ \E i, j \in 1..Len(point_set) :
           /\ i < j
           /\ \A k \in 1..Len(mtps) :
                  mtps[k].translator # PSub(point_set[j], point_set[i])

\* ------------------------------------- difference-index lookup (SpecLookup)
\* The vectors looked up: onset differences up to beyond the greatest
\* max_ioi, pitch differences of the two-pitch inputs
LookupVectors == (0..(MaxIoi + 1)) \X {-1, 0, 1}

InitLookup ==
    /\ InitRunOn(WindowAlgs, LivePointSets)
    /\ max_ioi \in 1..MaxIoi /\ siar_r = 0
    /\ diff_index = <<>> /\ target_indices = <<>> /\ window_bounds = <<>>
    /\ cover = <<>> /\ split_triples = <<>>
    /\ cos_point_set = <<>> /\ cos_status = "idle"
    /\ residual = <<>> /\ iterations = 0 /\ emitted = <<>>
    /\ InitIdleCmp
    /\ obj_tec = [pattern |-> <<>>, translators |-> <<>>]
    /\ obj_vec \in LookupVectors
    /\ obj_op = "new"
    /\ obj_result = <<>>

\* find_indices(&diff_index, &obj_vec) on the index that compute_diff_index
\* built
LookupStep ==
    /\ alg \in WindowAlgs /\ status = "init"
    /\ obj_op' = "find_indices"
    /\ obj_result' = FindIndices(alg, diff_index, obj_vec)
    /\ UNCHANGED <<psVars, runVars, winVars, cosVars, cmpVars, obj_tec, obj_vec>>

NextLookup == CDiffIndexStep \/ LookupStep

SpecLookup == InitLookup /\ [][NextLookup]_vars

\* The difference vectors that have an entry in the difference index
IndexKeys ==
    IF alg = "SiatecC" THEN {diff_index[k][1] : k \in 1..Len(diff_index)}
    ELSE DOMAIN diff_index

\* C21: a lookup of a vector that has no entry in the difference index of
\* SiatecC or SiatecCH fails; it does not return a list of index pairs.
C21_LookupMissIsFatal ==
    (obj_op = "find_indices" /\ obj_vec \notin IndexKeys) => ~obj_result.ok

\* The triple that the loop over split_triples is about to resolve
PendingTriple ==
    /\ alg \in WindowAlgs /\ status = "triples" /\ fi < Len(split_triples)
    /\ Len(split_triples[fi + 1].pattern) > 1
    /\ ImprovesCover(cover, split_triples[fi + 1].source_ind,
                     split_triples[fi + 1].target_ind, Len(split_triples[fi + 1].pattern))

\* C23: in every run of SiatecC and SiatecCH, every vector of the
\* vectorized form of a split sub-pattern that reaches translator
\* resolution is a key of the difference index built with the same max_ioi,
\* and no run ends in a failed lookup.
C23_LookupNeverMisses ==
    /\ PendingTriple =>
           \A k \in 1..(Len(split_triples[fi + 1].pattern) - 1) :
               Vectorize(split_triples[fi + 1].pattern)[k] \in IndexKeys
    /\ (alg \in WindowAlgs /\ Len(point_set) >= 1) => status # "panic"

C23_Witness ==
    /\ PendingTriple
    /\ Len(split_triples[fi + 1].pattern) >= 3
    /\ Len(mtps) > Len(split_triples) - 2
    /\ \E k \in 1..Len(mtps) : Len(mtps[k].pattern) > Len(split_triples[fi + 1].pattern)

\* -------------------------------------------------- heuristic comparisons
\* The candidates of a Cosiatec iteration: every TEC of the underlying
\* algorithm and its conjugate, each without its redundant translators
IterationCandidates ==
    UNION {{RemoveRedundantTranslators(tecs[k]),
            RemoveRedundantTranslators(Conjugate(tecs[k]))} : k \in 1..Len(tecs)}

CompRatio(tec) == ComprRatioWithCov(tec, CoveredSet(tec))

\* C22: the TEC that a Cosiatec iteration has emitted has the greatest
\* comp_ratio among the candidates of that iteration.
C22_EmittedHasGreatestRatio ==
    (cos_status = "loop" /\ status = "idle" /\ emitted # <<>>) =>
        \A c \in IterationCandidates :
            ~QuotientGreater(CompRatio(c), CompRatio(emitted[Len(emitted)]))

\* C29: is_better_than is strict on the TecStats that SiatecCompress
\* sorts: no TecStats is better than itself and no two are each better
\* than the other.
C29_IsBetterThanStrict ==
    \A j, k \in 1..Len(tec_stats) :
        /\ ~IsBetterThan(tec_stats[k], tec_stats[k])
        /\ ~(IsBetterThan(tec_stats[j], tec_stats[k])
               /\ IsBetterThan(tec_stats[k], tec_stats[j]))

\* -------------------------------------------------- cover of SiatecC / CH
\* The code index of the point p of the point set
IndexOfPoint(ps, p) == (CHOOSE k \in 1..Len(ps) : ps[k] = p) - 1

CoverAt(p) == cover[IndexOfPoint(point_set, p) + 1]

\* C24: once SiatecC / SiatecCH has accepted a sub-pattern of length L,
\* cover[i] >= L for the index i of every point of every occurrence of the
\* pattern (the pattern and its translated copies), the last point of each
\* occurrence included.
C24_OccurrencesCovered ==
    (alg \in WindowAlgs /\ status \in {"loop", "triples", "done"}) =>
        \A k \in 1..Len(tecs) :
            \A p \in Range(CoveredSet(tecs[k])) :
                p \in Range(point_set) /\ CoverAt(p) >= Len(tecs[k].pattern)

\* ------------------------------------------- windows of SiatecC / CH
\* The index pairs (i, j), i < j, of the point set whose difference is v
PairsWithDiff(ps, v) ==
    {q \in (0..(Len(ps) - 1)) \X (0..(Len(ps) - 1)) :
        q[1] < q[2] /\ PSub(ps[q[2] + 1], ps[q[1] + 1]) = v}

\* The index pairs of the iteration's forward differences equal to v
IterationPairs(v) ==
    {forward_diffs[k][2] : k \in {a \in 1..Len(forward_diffs) : forward_diffs[a][1] = v}}

\* The points of the point set that are the source of a pair with
\* difference v, in point-set order
SourcesWithDiff(ps, v) ==
    SelectSeq(ps, LAMBDA p : \E q \in PairsWithDiff(ps, v) : ps[q[1] + 1] = p)

\* C25: in an iteration of the main loop of SiatecC / SiatecCH all index
\* pairs with the same difference vector are computed together: the pairs
\* computed for a vector v are all pairs of the point set with difference
\* v, and the MTP formed for v holds every point p of the point set that
\* has a point of the point set at difference v from it.
C25_SameDiffSameIteration ==
    (alg \in WindowAlgs /\ status = "triples") =>
        /\ \A k \in 1..Len(forward_diffs) :
              IterationPairs(forward_diffs[k][1]) = PairsWithDiff(point_set, forward_diffs[k][1])
        /\ \A k \in 1..Len(mtps) :
              /\ mtps[k].pattern = SourcesWithDiff(point_set, mtps[k].translator)
              /\ IterationPairs(mtps[k].translator) # {}

\* The index pairs source i contributes when its pointer moves from t to u
PairsBetween(i, t, u) == {<<i, j>> : j \in {a \in t..(u - 1) : a # i}}

\* One iteration computes, for each source, exactly the pairs between its
\* old and its new pointer, each once and with its difference, and a
\* pointer never moves back
WindowStepPairsOnce ==
    (alg \in WindowAlgs /\ status = "loop" /\ status' = "triples") =>
        /\ \A i \in 0..(Len(point_set) - 2) :
              /\ target_indices'[i + 1] >= target_indices[i + 1]
              /\ {forward_diffs'[k][2] : k \in {a \in 1..Len(forward_diffs') :
                                                   forward_diffs'[a][2][1] = i}}
                     = PairsBetween(i, target_indices[i + 1], target_indices'[i + 1])
        /\ Cardinality({forward_diffs'[k][2] : k \in 1..Len(forward_diffs')})
               = Len(forward_diffs')
        /\ \A k \in 1..Len(forward_diffs') :
              /\ forward_diffs'[k][2][1] < forward_diffs'[k][2][2]
              /\ forward_diffs'[k][1] = PSub(point_set[forward_diffs'[k][2][2] + 1],
                                             point_set[forward_diffs'[k][2][1] + 1])

\* When the loop is left no source has a pair left to compute
NonePendingAtExit ==
    (alg \in WindowAlgs /\ status = "loop" /\ status' = "done") =>
        \A i \in 0..(Len(point_set) - 2) : target_indices[i + 1] >= Len(point_set)

\* Before the first iteration the pointer of source i stands at i
PointersStartAtSource ==
    (alg \in WindowAlgs /\ status = "init" /\ status' = "loop") =>
        \A i \in 0..(Len(point_set) - 1) : target_indices'[i + 1] = i

\* C26: in a run of SiatecC / SiatecCH every index pair (i, j), i < j,
\* contributes its forward difference in exactly one iteration of the main
\* loop: the pointers start at the sources, an iteration computes exactly
\* the pairs its pointers pass, once each, and when the loop is left (its
\* test reads the pointer of source 0 only) every pointer is at the end.
C26_EachPairOnce ==
    [][WindowStepPairsOnce /\ NonePendingAtExit /\ PointersStartAtSource]_vars

\* C26 witness: a run over at least four points has returned after source
\* 0 took four iterations or more and a later source took at least two.
C26_Witness ==
    /\ alg \in WindowAlgs /\ status = "done"
    /\ Len(point_set) >= 4
    /\ window_bounds[1] >= Onset(point_set[1]) + 4 * max_ioi
    /\ \E i \in 2..(Len(point_set) - 1) :
          window_bounds[i] >= Onset(point_set[i]) + 2 * max_ioi
    /\ tecs # <<>>

\* ------------------------------------------- redundant translators of a Tec
RedMaxTranslators == 3
RedVectors == {<<0, 0>>, <<1, 0>>, <<2, 0>>, <<3, 0>>, <<1, 1>>}

InitRedundant ==
    /\ InitIdlePs
    /\ InitIdleRun /\ InitIdleWin
    /\ cos_point_set = <<>> /\ cos_status = "idle"
    /\ residual = <<>> /\ iterations = 0 /\ emitted = <<>>
    /\ InitIdleCmp
    /\ obj_tec \in {Tec(pattern, translators) :
                       pattern \in ObjPatterns,
                       translators \in SeqsUpTo(RedVectors, RedMaxTranslators)}
    /\ obj_vec = ZeroPoint
    /\ obj_op = "new"
    /\ obj_result = <<>>

\* obj_tec.remove_redundant_translators()
TecRemoveRedundantStep ==
    /\ obj_op' = "remove_redundant_translators"
    /\ obj_result' = RemoveRedundantTranslators(obj_tec)
    /\ ObjUnchanged

NextRedundant == TecRemoveRedundantStep \/ TecCoveredSetStep

SpecRedundant == InitRedundant /\ [][NextRedundant]_vars

\* C27: t.remove_redundant_translators() has the pattern of t and the
\* covered set of t, for every Tec t, also when several translators are
\* each redundant only because of the others.
C27_RemovalKeepsCover ==
    obj_op = "remove_redundant_translators" =>
        /\ obj_result.pattern = obj_tec.pattern
        /\ CoveredSet(obj_result) = CoveredSet(obj_tec)

\* ------------------------------------------------ the TECs Cosiatec emits
\* C28: every TEC that Cosiatec emits has a non-empty pattern and covers a
\* point that was still in the residual set: each iteration shrinks the
\* residual set (after k emitted TECs at most |D| - k points are left) and
\* the covered sets of the emitted TECs are pairwise disjoint, also when
\* the residual set is a single point.
C28_EmittedShrinkResidual ==
    (cos_status \in {"loop", "done"}) =>
        /\ \A k \in 1..Len(emitted) : emitted[k].pattern # <<>>
        /\ Len(residual) <= Len(cos_point_set) - Len(emitted)
        /\ \A j, k \in 1..Len(emitted) :
              j < k => Range(CoveredSet(emitted[j])) \cap Range(CoveredSet(emitted[k])) = {}

\* ------------------------------------------------ bounding box of a pattern
\* The number of points of the point set inside the bounding box of a pattern
ContainedIn(pattern, ps) ==
    Cardinality({k \in 1..Len(ps) : Contains(BoundingBox(pattern), ps[k])})

\* C30: the bounding box of a non-empty pattern contains every point of the
\* pattern, so for a pattern of the point set at least as many points of the
\* point set are inside the box as the pattern has, and the compactness of
\* its TecStats is at most 1.
C30_BoundingBoxContainsPattern ==
    \A k \in 1..Len(tec_stats) :
        tec_stats[k].tec.pattern # <<>> =>
            /\ \A i \in 1..Len(tec_stats[k].tec.pattern) :
                  Contains(BoundingBox(tec_stats[k].tec.pattern), tec_stats[k].tec.pattern[i])
            /\ ContainedIn(tec_stats[k].tec.pattern, point_set) >= Len(tec_stats[k].tec.pattern)
            /\ ~QuotientGreater(tec_stats[k].compactness, <<1, 1>>)
=============================================================================
